---------------------------- MODULE Spec2Model ----------------------------
(***************************************************************************)
(* A model of openbankingbr: the field accessor (utils.get, utils.getInt), *)
(* the cached HTTP fetcher (utils.fetchUrl), the pagination walker         *)
(* (utils.fetchUrlPages) and the product normalizer                        *)
(* (models.Participante.produtos, models.Produto).                         *)
(*                                                                         *)
(* Python values are tagged records [t, v].  A Python str is a sequence of *)
(* pieces; a piece is a TLA+ string holding one character ("7", "-", ".")  *)
(* or one run of characters that no operation of the program splits        *)
(* ("abc", "http://").  None and JSON null are the same value, Null.       *)
(***************************************************************************)
EXTENDS Integers, Sequences, FiniteSets, TLC

VARIABLES
    acc,        \* a call of get, getInt or _fix: its value, the dotted key, the outcome
    today,      \* the current calendar day (date.today())
    cacheDir,   \* what is at the cache directory's path: "absent", "dir", "file"
    files,      \* cache file name -> NoFile or [day, text]
    netLog,     \* every requests.get issued, in order
    call,       \* the last fetchUrl call: its arguments, outcome and effects
    written,    \* url -> the last document fetchUrl wrote to its cache entry
    world,      \* what the participant's servers answer (fixed during a walk)
    walk,       \* a consumer iterating fetchUrlPages: its generator and what it got
    norm,       \* the normalizer: a products page and the Produtos decoded from it
    listing,    \* an iteration of OpenBankingBR.participantes and what it yielded
    batch       \* a run of BatchOpenBanking: reports to write, rows written, position

vars ==
    <<acc, today, cacheDir, files, netLog, call, written, world, walk, norm, listing, batch>>

---------------------------------------------------------------------------
(* Python values *)

Null == [t |-> "null", v |-> 0]

IsNull(x) == x.t = "null"

\* x == y on values: equal kinds first, then equal contents
RECURSIVE Same(_, _)
Same(x, y) ==
    /\ x.t = y.t
    /\ CASE x.t = "list" ->
              Len(x.v) = Len(y.v) /\ \A i \in 1..Len(x.v) : Same(x.v[i], y.v[i])
         [] x.t = "map" ->
              DOMAIN x.v = DOMAIN y.v /\ \A k \in DOMAIN x.v : Same(x.v[k], y.v[k])
         [] OTHER -> x.v = y.v

\* the same outcome of a call
SameResult(r, q) == r.k = q.k /\ r.e = q.e /\ Same(r.v, q.v)

\* the same values in the same order
SameSeq(xs, ys) == Len(xs) = Len(ys) /\ \A i \in 1..Len(xs) : Same(xs[i], ys[i])
JBool(b) == [t |-> "bool", v |-> b]
JInt(n) == [t |-> "int", v |-> n]
\* a float, in tenths: JFloat(15) is 1.5
JFloat(n) == [t |-> "float", v |-> n]
JStr(s) == [t |-> "str", v |-> s]
JList(s) == [t |-> "list", v |-> s]
\* a dict: a function from key strings to values
JMap(f) == [t |-> "map", v |-> f]
JDateTime(s) == [t |-> "datetime", v |-> s]

EmptyMap == [k \in {} |-> Null]
One(k, x) == [j \in {k} |-> x]

Pair(k1, x1, k2, x2) == [k \in {k1, k2} |-> IF k = k1 THEN x1 ELSE x2]

\* the outcome of a call: a returned value or a raised exception
Ret(x) == [k |-> "ret", v |-> x, e |-> "-"]
Raise(e) == [k |-> "raise", v |-> Null, e |-> e]

\* An assignment `v = x` followed by a use of v is written
\*     CHOOSE r \in {f(v) : v \in {x}} : TRUE
\* which evaluates x once, as Python does.

Digits == <<"0", "1", "2", "3", "4", "5", "6", "7", "8", "9">>
DigitSet == {Digits[i] : i \in 1..10}
DigitVal(c) == (CHOOSE i \in 1..10 : Digits[i] = c) - 1

RECURSIVE SeqToNat(_)
SeqToNat(s) ==
    IF s = <<>> THEN 0
    ELSE 10 * SeqToNat(SubSeq(s, 1, Len(s) - 1)) + DigitVal(s[Len(s)])

RECURSIVE NatToSeq(_)
NatToSeq(n) ==
    IF n < 10 THEN <<Digits[n + 1]>>
    ELSE NatToSeq(n \div 10) \o <<Digits[(n % 10) + 1]>>

AllDigits(s) == \A i \in 1..Len(s) : s[i] \in DigitSet

Abs(n) == IF n < 0 THEN -n ELSE n

RECURSIVE Flatten(_)
Flatten(ss) == IF ss = <<>> THEN <<>> ELSE Head(ss) \o Flatten(Tail(ss))

RECURSIVE SetToSeq(_)
SetToSeq(S) ==
    IF S = {} THEN <<>>
    ELSE LET x == CHOOSE y \in S : TRUE IN <<x>> \o SetToSeq(S \ {x})

\* str(x) and repr(x)
RECURSIVE PyRepr(_)
PyStr(x) ==
    CASE x.t = "null" -> <<"None">>
      [] x.t = "bool" -> IF x.v THEN <<"True">> ELSE <<"False">>
      [] x.t = "int" -> (IF x.v < 0 THEN <<"-">> ELSE <<>>) \o NatToSeq(Abs(x.v))
      [] x.t = "float" ->
            (IF x.v < 0 THEN <<"-">> ELSE <<>>) \o NatToSeq(Abs(x.v) \div 10)
                \o <<".">> \o NatToSeq(Abs(x.v) % 10)
      [] x.t = "str" -> x.v
      [] x.t = "datetime" -> x.v
      [] x.t = "list" ->
            <<"[">> \o Flatten([i \in 1..Len(x.v) |->
                    (IF i > 1 THEN <<", ">> ELSE <<>>) \o PyRepr(x.v[i])]) \o <<"]">>
      [] x.t = "map" ->
            LET ks == SetToSeq(DOMAIN x.v) IN
            <<"{">> \o Flatten([i \in 1..Len(ks) |->
                    (IF i > 1 THEN <<", ">> ELSE <<>>) \o <<"'", ks[i], "'", ": ">>
                        \o PyRepr(x.v[ks[i]])]) \o <<"}">>

PyRepr(x) == IF x.t = "str" THEN <<"'">> \o x.v \o <<"'">> ELSE PyStr(x)

\* bool(x)
Truthy(x) ==
    CASE x.t = "null" -> FALSE
      [] x.t = "bool" -> x.v
      [] x.t \in {"int", "float"} -> x.v # 0
      [] x.t \in {"str", "list"} -> x.v # <<>>
      [] x.t = "map" -> DOMAIN x.v # {}
      [] OTHER -> TRUE

\* int(s) of a str: an optional sign and at least one digit, else ValueError
ParseInt(s) ==
    LET signed == s # <<>> /\ s[1] \in {"-", "+"}
        ds == IF signed THEN Tail(s) ELSE s
    IN  IF ds # <<>> /\ AllDigits(ds)
        THEN Ret(JInt(IF signed /\ s[1] = "-" THEN -SeqToNat(ds) ELSE SeqToNat(ds)))
        ELSE Raise("ValueError")

\* float(s) of a str: sign, digits, an optional point and digits; the model's floats
\* keep one fractional digit
ParseFloat(s) ==
    LET signed == s # <<>> /\ s[1] \in {"-", "+"}
        body == IF signed THEN Tail(s) ELSE s
        dots == {i \in 1..Len(body) : body[i] = "."}
        ip == IF dots = {} THEN body
              ELSE SubSeq(body, 1, (CHOOSE i \in dots : TRUE) - 1)
        fp == IF dots = {} THEN <<>>
              ELSE SubSeq(body, (CHOOSE i \in dots : TRUE) + 1, Len(body))
        tenths == 10 * SeqToNat(ip) + (IF fp = <<>> THEN 0 ELSE DigitVal(fp[1]))
    IN  IF Cardinality(dots) <= 1 /\ AllDigits(ip) /\ AllDigits(fp) /\ Len(ip) + Len(fp) > 0
        THEN Ret(JFloat(IF signed /\ s[1] = "-" THEN -tenths ELSE tenths))
        ELSE Raise("ValueError")

\* datetime.fromisoformat(x): a str of the form YYYY-MM-DD
IsIsoDate(s) ==
    /\ Len(s) = 10
    /\ s[5] = "-" /\ s[8] = "-"
    /\ \A i \in {1, 2, 3, 4, 6, 7, 9, 10} : s[i] \in DigitSet
    /\ SeqToNat(SubSeq(s, 6, 7)) \in 1..12
    /\ SeqToNat(SubSeq(s, 9, 10)) \in 1..31

FromIsoFormat(x) ==
    IF x.t # "str" THEN Raise("TypeError")
    ELSE IF IsIsoDate(x.v) THEN Ret(JDateTime(x.v))
    ELSE Raise("ValueError")

\* s.rstrip('Z')
RECURSIVE RStripZ(_)
RStripZ(s) ==
    IF s # <<>> /\ s[Len(s)] = "Z" THEN RStripZ(SubSeq(s, 1, Len(s) - 1)) ELSE s

---------------------------------------------------------------------------
(* utils.get *)

\* key.split('.'): a dotted key is a sequence of pieces, "." the separator
RECURSIVE Split(_)
Split(key) ==
    LET dots == {i \in 1..Len(key) : key[i] = "."} IN
    IF dots = {}
    THEN <<IF key = <<>> THEN "" ELSE key[1]>>
    ELSE LET i == CHOOSE j \in dots : \A m \in dots : j <= m
             first == SubSeq(key, 1, i - 1)
         IN  <<IF first = <<>> THEN "" ELSE first[1]>>
                \o Split(SubSeq(key, i + 1, Len(key)))

\* cur[k] with k a str
Subscript(cur, k) ==
    IF cur.t = "map"
    THEN IF k \in DOMAIN cur.v THEN Ret(cur.v[k]) ELSE Raise("KeyError")
    ELSE Raise("TypeError")

\* the loop over the keys: "none" is the early `return None`
RECURSIVE Walk(_, _)
Walk(cur, keys) ==
    IF keys = <<>> THEN Ret(cur)
    ELSE LET r == Subscript(cur, Head(keys)) IN
         IF r.k = "raise" THEN r
         ELSE IF IsNull(r.v) THEN [k |-> "none", v |-> Null, e |-> "-"]
         ELSE Walk(r.v, Tail(keys))

ValueTypes ==
    {"None", "list", "dict", "int", "str", "float", "bool", "date", "datetime", "complex"}

\* the if/elif chain on valueType
Coerce(cur, valueType) ==
    CASE valueType = "None" -> Ret(cur)
      [] valueType = "list" -> IF cur.t = "list" THEN Ret(cur) ELSE Raise("ValueError")
      [] valueType = "dict" -> IF cur.t = "map" THEN Ret(cur) ELSE Raise("ValueError")
      [] valueType = "int" ->
            CASE cur.t = "int" -> Ret(cur)
              [] cur.t = "bool" -> Ret(JInt(IF cur.v THEN 1 ELSE 0))
              [] cur.t = "float" ->
                    Ret(JInt(IF cur.v < 0 THEN -(Abs(cur.v) \div 10) ELSE cur.v \div 10))
              [] cur.t = "str" -> ParseInt(cur.v)
              [] OTHER -> Raise("TypeError")
      [] valueType = "str" -> Ret(JStr(PyStr(cur)))
      [] valueType = "float" ->
            CASE cur.t = "int" -> Ret(JFloat(10 * cur.v))
              [] cur.t = "bool" -> Ret(JFloat(IF cur.v THEN 10 ELSE 0))
              [] cur.t = "float" -> Ret(cur)
              [] cur.t = "str" -> ParseFloat(cur.v)
              [] OTHER -> Raise("TypeError")
      [] valueType = "bool" -> Ret(JBool(Truthy(cur)))
      [] valueType = "date" -> FromIsoFormat(cur)
      [] valueType = "datetime" ->
            FromIsoFormat(IF cur.t = "str" THEN JStr(RStripZ(cur.v)) ELSE cur)
      [] OTHER -> Raise("NotImplementedError")

\* the except clauses
GetHandlers(r, required) ==
    IF r.k # "raise" THEN r
    ELSE IF r.e \in {"ValueError", "KeyError"}
    THEN IF required THEN Raise("RequiredFieldException") ELSE Ret(Null)
    ELSE IF required THEN r ELSE Ret(Null)

get(d, key, required, valueType) ==
    LET w == Walk(d, Split(key)) IN
    IF w.k = "none" THEN Ret(Null)
    ELSE GetHandlers(IF w.k = "raise" THEN w ELSE Coerce(w.v, valueType), required)

\* StripNonDigits with the pattern [^-\d] in place of \D: a leading sign survives
StripNonDigitsKeepSign(s) ==
    (IF s # <<>> /\ Head(s) = "-" THEN <<"-">> ELSE <<>>) \o
        SelectSeq(s, LAMBDA c : c \in DigitSet)

\* re.sub(r'\D', '', value)
RECURSIVE StripNonDigits(_)
StripNonDigits(s) ==
    IF s = <<>> THEN <<>>
    ELSE (IF Head(s) \in DigitSet THEN <<Head(s)>> ELSE <<>>) \o StripNonDigits(Tail(s))

getInt(dados, key) ==
    LET value == get(dados, key, FALSE, "str") IN
    IF value.k = "ret" /\ IsNull(value.v) THEN Ret(Null)
    ELSE IF value.k = "raise" THEN value
    ELSE LET r == ParseInt(StripNonDigits(value.v.v)) IN
         IF r.k = "raise" THEN Ret(Null) ELSE r

---------------------------------------------------------------------------
(* The accessor's inputs *)

\* nesting depth of the documents drawn
MaxDepth == 2
\* number of segments of the dotted keys drawn
MaxSegments == 2

Leaves ==
    { Null, JBool(TRUE), JBool(FALSE), JInt(0), JInt(-5), JInt(12), JFloat(15),
      JStr(<<>>), JStr(<<"abc">>), JStr(<<"0", "0", "7">>), JStr(<<"-", "4">>),
      JStr(<<"1", "2", ".", "3", "4", "5", "-", "6">>), JStr(<<"1", ".", "5">>),
      JStr(<<"2", "0", "2", "1", "-", "0", "1", "-", "3", "1">>),
      JStr(<<"2", "0", "2", "1", "-", "0", "1", "-", "3", "1", "Z">>),
      JList(<<>>), JList(<<JInt(1), JStr(<<"x", "2">>)>>),
      JMap(EmptyMap), JMap(One("c", JInt(7))) }

Segments == {"a", "b", ""}

\* the maps of nesting depth at most n over the keys "a" and "b"
RECURSIVE MapsOfDepth(_)
MapsOfDepth(n) ==
    IF n = 0 THEN {JMap(EmptyMap)}
    ELSE LET inner == Leaves \cup MapsOfDepth(n - 1) IN
         {JMap(EmptyMap)} \cup {JMap(One(k, x)) : k \in {"a", "b"}, x \in inner}

AccDocs == MapsOfDepth(MaxDepth)

\* '.'.join(segs)
RECURSIVE Join(_)
Join(segs) ==
    IF segs = <<>> THEN <<>>
    ELSE (IF Head(segs) = "" THEN <<>> ELSE <<Head(segs)>>)
            \o (IF Len(segs) > 1 THEN <<".">> ELSE <<>>) \o Join(Tail(segs))

AccKeys == {Join(segs) : segs \in UNION {[1..n -> Segments] : n \in 1..MaxSegments}}

AccIdle == [d |-> JMap(EmptyMap), key |-> <<>>, op |-> "none", required |-> FALSE,
            valueType |-> "None", out |-> Ret(Null)]

---------------------------------------------------------------------------
(* JSON text: json.dump and json.load / Response.json *)

\* A text is a sequence of tokens: punctuation, literals, numbers (the pieces of
\* their decimal form) and strings.
P(c) == [t |-> "punct", v |-> c]
Lit(c) == [t |-> "lit", v |-> <<c>>]
Num(s) == [t |-> "num", v |-> s]
StrTok(s) == [t |-> "string", v |-> s]

IsP(tok, c) == tok.t = "punct" /\ tok.v = c

\* a lone surrogate (the JSON escape \ud800): a str piece that UTF-8 cannot encode
LoneSurrogate == "\\ud800"

\* json.dump(data, f, ensure_ascii=False): the chunks written, in order
RECURSIVE Dump(_)
Dump(x) ==
    CASE x.t = "null" -> <<Lit("null")>>
      [] x.t = "bool" -> <<Lit(IF x.v THEN "true" ELSE "false")>>
      [] x.t \in {"int", "float"} -> <<Num(PyStr(x))>>
      [] x.t = "str" -> <<StrTok(x.v)>>
      [] x.t = "list" ->
            <<P("[")>> \o Flatten([i \in 1..Len(x.v) |->
                    (IF i > 1 THEN <<P(",")>> ELSE <<>>) \o Dump(x.v[i])]) \o <<P("]")>>
      [] x.t = "map" ->
            LET ks == SetToSeq(DOMAIN x.v) IN
            <<P("{")>> \o Flatten([i \in 1..Len(ks) |->
                    (IF i > 1 THEN <<P(",")>> ELSE <<>>) \o <<StrTok(<<ks[i]>>), P(":")>>
                        \o Dump(x.v[ks[i]])]) \o <<P("}")>>

Encodable(tok) == ~(tok.t = "string" /\ \E i \in 1..Len(tok.v) : tok.v[i] = LoneSurrogate)

\* f.write(str(data)) in place of json.dump: the file holds the Python form of the
\* document, one run of characters that is no JSON literal
WriteStr(data) == [ok |-> TRUE, text |-> <<[t |-> "lit", v |-> PyStr(data)]>>]

\* with open(cacheEntry, 'w', encoding='utf8') as f: json.dump(...): the chunk that
\* cannot be encoded raises UnicodeEncodeError and the chunks before it stay in the file
WriteJson(data) ==
    LET upTo(toks) ==
            LET bad == {i \in 1..Len(toks) : ~Encodable(toks[i])} IN
            IF bad = {} THEN [ok |-> TRUE, text |-> toks]
            ELSE [ok |-> FALSE,
                  text |-> SubSeq(toks, 1, (CHOOSE i \in bad : \A j \in bad : i <= j) - 1)]
    IN  CHOOSE r \in {upTo(toks) : toks \in {Dump(data)}} : TRUE

\* The decoder reads the tokens left to right.  Its state: the open containers (each
\* with what it holds so far and, for an object, the key awaiting its value), what it
\* expects next, and the finished value.
ParseStart == [stack |-> <<>>, mode |-> "value", res |-> Null]
ParseFail == [stack |-> <<>>, mode |-> "fail", res |-> Null]

\* a value is complete: it is the document, or it goes into the innermost container
Complete(st, x) ==
    IF st.stack = <<>> THEN [stack |-> <<>>, mode |-> "done", res |-> x]
    ELSE LET n == Len(st.stack)
             top == st.stack[n]
             acc2 == IF top.kind = "list" THEN JList(Append(top.acc.v, x))
                     ELSE JMap([k \in DOMAIN top.acc.v \cup {top.key} |->
                                    IF k = top.key THEN x ELSE top.acc.v[k]])
         IN  [st EXCEPT !.stack[n].acc = acc2, !.mode = "after"]

Pop(st) == [st EXCEPT !.stack = SubSeq(st.stack, 1, Len(st.stack) - 1)]

Scalar(tok) ==
    CASE tok.t = "lit" /\ tok.v = <<"null">> -> Ret(Null)
      [] tok.t = "lit" /\ tok.v = <<"true">> -> Ret(JBool(TRUE))
      [] tok.t = "lit" /\ tok.v = <<"false">> -> Ret(JBool(FALSE))
      [] tok.t = "num" ->
            IF \E j \in 1..Len(tok.v) : tok.v[j] = "." THEN ParseFloat(tok.v)
            ELSE ParseInt(tok.v)
      [] tok.t = "string" -> Ret(JStr(tok.v))
      [] OTHER -> Raise("JSONDecodeError")

ParseStep(st, tok) ==
    LET top == st.stack[Len(st.stack)]
        open(kind, mode) ==
            [st EXCEPT !.stack = Append(st.stack,
                            [kind |-> kind, key |-> "",
                             acc |-> IF kind = "list" THEN JList(<<>>) ELSE JMap(EmptyMap)]),
                       !.mode = mode]
    IN  CASE st.mode \in {"value", "valueOrEnd"} ->
                IF IsP(tok, "[") THEN open("list", "valueOrEnd")
                ELSE IF IsP(tok, "{") THEN open("map", "keyOrEnd")
                ELSE IF IsP(tok, "]") /\ st.mode = "valueOrEnd" THEN Complete(Pop(st), top.acc)
                ELSE IF Scalar(tok).k = "ret" THEN Complete(st, Scalar(tok).v)
                ELSE ParseFail
          [] st.mode \in {"key", "keyOrEnd"} ->
                IF tok.t = "string" /\ Len(tok.v) = 1
                THEN [st EXCEPT !.stack[Len(st.stack)].key = tok.v[1], !.mode = "colon"]
                ELSE IF IsP(tok, "}") /\ st.mode = "keyOrEnd" THEN Complete(Pop(st), top.acc)
                ELSE ParseFail
          [] st.mode = "colon" ->
                IF IsP(tok, ":") THEN [st EXCEPT !.mode = "value"] ELSE ParseFail
          [] st.mode = "after" ->
                IF IsP(tok, ",")
                THEN [st EXCEPT !.mode = IF top.kind = "list" THEN "value" ELSE "key"]
                ELSE IF (IsP(tok, "]") /\ top.kind = "list") \/ (IsP(tok, "}") /\ top.kind = "map")
                THEN Complete(Pop(st), top.acc)
                ELSE ParseFail
          [] OTHER -> ParseFail

\* the decoder run over the tokens lo..hi, the first half and then the second
RECURSIVE ParseRange(_, _, _, _)
ParseRange(t, lo, hi, st) ==
    IF lo > hi THEN st
    ELSE IF lo = hi THEN ParseStep(st, t[lo])
    ELSE CHOOSE r \in {ParseRange(t, ((lo + hi) \div 2) + 1, hi, st2) :
                          st2 \in {ParseRange(t, lo, (lo + hi) \div 2, st)}} : TRUE

ParseFrom(t, i, st) == ParseRange(t, i, Len(t), st)

\* json.load(f) and res.json(): the document, or JSONDecodeError (a ValueError)
Load(text) ==
    LET st == ParseFrom(text, 1, ParseStart) IN
    IF st.mode = "done" THEN Ret(st.res) ELSE Raise("JSONDecodeError")

---------------------------------------------------------------------------
(* requests.get *)

UrlA == <<"https://", "bank.example", "/open-banking/channels/v1/branches">>
UrlB == <<"https://", "bank.example", "/open-banking/channels/v1/branches", "?page=", "2">>
UrlNoScheme == <<"bank.example", "/open-banking/channels/v1/branches">>
UrlFtp == <<"ftp://", "bank.example", "/open-banking/channels/v1/branches">>
UrlBadHost == <<"https://", "*.example", "/open-banking/channels/v1/branches">>
UrlNonAscii == <<"https://", "bank.example", "/ag<U+00EA>ncias">>

WellFormedUrls == {UrlA, UrlB}
MalformedUrls == {UrlNoScheme, UrlFtp, UrlBadHost, UrlNonAscii}
FetchUrls == WellFormedUrls \cup MalformedUrls

\* pages of one endpoint in a walk (MaxPages + 1: the page after the last)
MaxPages == 3

\* the branches endpoint and the URLs of its later pages
PageUrl(i) == IF i = 1 THEN UrlA ELSE UrlA \o <<"?page=", Digits[i + 1]>>
PageUrls == {PageUrl(i) : i \in 1..(MaxPages + 1)}

\* the directory of participants: __init__.py:64
DirUrl == <<"https://", "data.directory.openbankingbrasil.org.br", "/participants">>

\* members of the directory (MaxMembers + 1: room for one member more)
MaxMembers == 2

\* the endpoints member i of the directory declares
BranchesUrl(i) == <<"https://", "bank", Digits[i + 1], ".example", "/open-banking/channels/v1/branches">>
ProductsUrl(i) ==
    <<"https://", "bank", Digits[i + 1], ".example", "/open-banking/products-services/v1/",
      "personal-accounts">>
\* the address a first page of branches gives for the page after it
MoreBranchesUrl(i) == BranchesUrl(i) \o <<"?page=2">>

MemberUrls ==
    UNION {{BranchesUrl(i), MoreBranchesUrl(i), ProductsUrl(i)} : i \in 1..(MaxMembers + 1)}

AllUrls == FetchUrls \cup PageUrls \cup {DirUrl} \cup MemberUrls

HttpSchemes == {"http://", "https://"}
OtherSchemes == {"ftp://"}
InvalidHostLabels == {"", "*.example"}
NonAsciiPieces == {"/ag<U+00EA>ncias"}

\* s.startswith(prefix), prefix one piece
StartsWith(s, prefix) == s # <<>> /\ s[1] = prefix

\* url.encode('ascii') succeeds
IsAscii(url) == \A i \in 1..Len(url) : url[i] \notin NonAsciiPieces

\* the exception requests raises before sending, "-" when the request is sent
PrepareUrl(url) ==
    IF url = <<>> \/ url[1] \notin HttpSchemes \cup OtherSchemes THEN "MissingSchema"
    ELSE IF url[1] \in OtherSchemes THEN "InvalidSchema"
    ELSE IF Len(url) < 2 \/ url[2] \in InvalidHostLabels THEN "InvalidURL"
    ELSE "-"

\* requests' exceptions that are ValueErrors, with the built-in ones
IsValueError(e) ==
    e \in {"ValueError", "JSONDecodeError", "UnicodeEncodeError",
           "MissingSchema", "InvalidSchema", "InvalidURL"}

\* what the network does with a request that is sent
NetFail(e) == [kind |-> "exc", exc |-> e, status |-> 0, body |-> <<>>]
NetResponse(st, text) == [kind |-> "http", exc |-> "-", status |-> st, body |-> text]
NoRequest == [kind |-> "none", exc |-> "-", status |-> 0, body |-> <<>>]

\* the documents the servers hold
RateDoc == JList(<<JFloat(15), Null, JBool(TRUE), JInt(-5)>>)
SurrogateDoc == JMap([k \in {"a", "b"} |->
                    IF k = "a" THEN JInt(1) ELSE JStr(<<"x", LoneSurrogate>>)])
ErrorDoc == JMap(One("error", JStr(<<"not found">>)))

HtmlBody == <<[t |-> "lit", v |-> <<"<html>">>]>>

NetOutcomes ==
    {NetFail("ConnectionError"), NetFail("Timeout")}
        \cup {NetResponse(200, Dump(d)) : d \in {Null, RateDoc, SurrogateDoc}}
        \cup {NetResponse(200, HtmlBody)}
        \cup {NetResponse(404, Dump(ErrorDoc)), NetResponse(404, HtmlBody)}

---------------------------------------------------------------------------
(* utils.fetchUrl *)

NoFile == [day |-> -1, text |-> <<>>]

\* os.path.join(cacheDir, md5(url.encode('ascii')).hexdigest() + '.json')
CacheEntry(url) == <<"md5">> \o url \o <<".json">>

CacheEntries == {CacheEntry(u) : u \in AllUrls}

\* file_was_created_today without the date comparison: any existing file is fresh
FileExists(fs, file, day) == fs[file] # NoFile

\* file_was_created_today(file): the file exists and its creation date (its
\* modification date where the platform records no birth time) is today
file_was_created_today(fs, file, day) ==
    fs[file] # NoFile /\ fs[file].day = day

\* the except clauses of fetchUrl
FetchHandlers(e) ==
    IF e = "InvalidURL" THEN Ret(Null)
    ELSE IF IsValueError(e) THEN Raise("OpenBankingException")
    ELSE Ret(Null)

\* the try block: outcome is what the network does if the request is sent.
\* The result: out, the files after, whether a request was sent, the document written.
TryBlock(url, useCache, outcome, fs, day) ==
    LET pre == PrepareUrl(url)
        quiet(o) == [out |-> o, files |-> fs, net |-> pre = "-", wrote |-> FALSE]
        store(data, w) ==
            [out |-> IF w.ok THEN data ELSE FetchHandlers("UnicodeEncodeError"),
             files |-> [fs EXCEPT ![CacheEntry(url)] = [day |-> day, text |-> w.text]],
             net |-> TRUE, wrote |-> w.ok]
        parsed(data) ==
            IF data.k = "raise" THEN quiet(FetchHandlers(data.e))
            ELSE IF IsNull(data.v) THEN quiet(Ret(Null))
            \* cacheEntry is unbound when no cacheDir was given: UnboundLocalError
            ELSE IF ~useCache THEN quiet(FetchHandlers("UnboundLocalError"))
            ELSE CHOOSE r \in {store(data, w) : w \in {WriteJson(data.v)}} : TRUE
    IN  IF pre # "-" THEN quiet(FetchHandlers(pre))
        ELSE IF outcome.kind = "exc" THEN quiet(FetchHandlers(outcome.exc))
        ELSE CHOOSE r \in {parsed(data) : data \in {Load(outcome.body)}} : TRUE

\* fetchUrl without the os.remove of an entry that was not created today
fetchUrlKeepingEntry(url, useCache, outcome, dir, fs, day) ==
    LET stay(o, d) == [out |-> o, dir |-> d, files |-> fs, net |-> FALSE,
                       from |-> "none", wrote |-> FALSE]
        dir1 == IF useCache /\ dir = "absent" THEN "dir" ELSE dir
        entry == CacheEntry(url)
        fetched(r) == [out |-> r.out, dir |-> dir1, files |-> r.files,
                       net |-> r.net, from |-> "net", wrote |-> r.wrote]
    IN  IF useCache /\ dir = "file" THEN stay(Raise("OpenBankingException"), dir)
        ELSE IF useCache /\ ~IsAscii(url) THEN stay(Raise("UnicodeEncodeError"), dir1)
        ELSE IF useCache /\ file_was_created_today(fs, entry, day)
        THEN [stay(Load(fs[entry].text), dir1) EXCEPT !.from = "cache"]
        ELSE CHOOSE x \in {fetched(r) : r \in
                {TryBlock(url, useCache, outcome, fs, day)}} : TRUE

\* fetchUrl(url, cacheDir): useCache is cacheDir != None; dir is what is at the path
fetchUrl(url, useCache, outcome, dir, fs, day) ==
    LET stay(o, d) == [out |-> o, dir |-> d, files |-> fs, net |-> FALSE,
                       from |-> "none", wrote |-> FALSE]
        dir1 == IF useCache /\ dir = "absent" THEN "dir" ELSE dir
        entry == CacheEntry(url)
        fetched(r) == [out |-> r.out, dir |-> dir1, files |-> r.files,
                       net |-> r.net, from |-> "net", wrote |-> r.wrote]
    IN  IF useCache /\ dir = "file" THEN stay(Raise("OpenBankingException"), dir)
        ELSE IF useCache /\ ~IsAscii(url) THEN stay(Raise("UnicodeEncodeError"), dir1)
        ELSE IF useCache /\ file_was_created_today(fs, entry, day)
        THEN [stay(Load(fs[entry].text), dir1) EXCEPT !.from = "cache"]
        ELSE CHOOSE x \in {fetched(r) : r \in
                {TryBlock(url, useCache, outcome,
                          IF useCache THEN [fs EXCEPT ![entry] = NoFile] ELSE fs, day)}} : TRUE

---------------------------------------------------------------------------
(* Python's container protocol on the values *)

\* a generator object fetchUrlPages(url) that has not run yet
JGen(url) == [t |-> "generator", v |-> url]

\* `k in x` with k a str, x not a generator
Contains(x, k) ==
    CASE x.t = "map" -> Ret(JBool(k \in DOMAIN x.v))
      [] x.t = "list" -> Ret(JBool(\E i \in 1..Len(x.v) : Same(x.v[i], JStr(<<k>>))))
      [] x.t = "str" -> Ret(JBool(\E i \in 1..Len(x.v) : x.v[i] = k))
      [] OTHER -> Raise("TypeError")

\* `for e in x`: the elements, in order
Iterate(x) ==
    CASE x.t = "list" -> Ret(x)
      [] x.t = "map" ->
            LET ks == SetToSeq(DOMAIN x.v) IN
            Ret(JList([i \in 1..Len(ks) |-> JStr(<<ks[i]>>)]))
      [] x.t = "str" -> Ret(JList([i \in 1..Len(x.v) |-> JStr(<<x.v[i]>>)]))
      [] OTHER -> Raise("TypeError")

\* x[k] = y with k a str
SetItem(x, k, y) ==
    IF x.t = "map"
    THEN Ret(JMap([j \in DOMAIN x.v \cup {k} |-> IF j = k THEN y ELSE x.v[j]]))
    ELSE Raise("TypeError")

\* `k in x and type(x[k]) == list` for a map x
IsListAt(x, k) == x.t = "map" /\ k \in DOMAIN x.v /\ x.v[k].t = "list"

---------------------------------------------------------------------------
(* utils.fetchUrlPages: a generator *)

\* What one resumption of the generator does: "yield" an element, "stop"
\* (StopIteration) or "raise".  root is kept for the resumption after the first yield.
GenYield(x, root) == [k |-> "yield", v |-> x, e |-> "-", root |-> root]
GenStop == [k |-> "stop", v |-> Null, e |-> "-", root |-> Null]
GenRaise(e) == [k |-> "raise", v |-> Null, e |-> e, root |-> Null]

\* from the call to the first yield; fetched is what fetchUrl(url, cacheDir) gave
PagesFirst(url, fetched) ==
    IF fetched.k = "raise" THEN GenRaise(fetched.e)
    ELSE IF IsNull(fetched.v) \/ fetched.v.t # "map" THEN GenStop
    ELSE IF "data" \notin DOMAIN fetched.v.v THEN GenStop
    ELSE LET data == SetItem(fetched.v.v["data"], "endPoint", JStr(url)) IN
         IF data.k = "raise" THEN GenRaise(data.e)
         ELSE GenYield(data.v, [fetched.v EXCEPT !.v["data"] = data.v])

\* from the first yield on: the next link, read from the root response
PagesSecond(root) ==
    LET nextPage == get(root, <<"links", ".", "next">>, FALSE, "str") IN
    IF IsNull(nextPage.v) THEN GenStop
    ELSE IF StartsWith(nextPage.v.v, "http://") \/ StartsWith(nextPage.v.v, "https://")
    THEN GenYield(JGen(nextPage.v.v), Null)
    ELSE GenStop

---------------------------------------------------------------------------
(* models.Participante.agencias: the body of `for page in fetchUrlPages(...)` *)

\* what a generator body gave before it ended or raised
Yields(ys, e) == [yields |-> ys, e |-> e]

\* for branch in branches: branch['endPoint'] = page['endPoint']; yield Agencia(self, branch)
RECURSIVE BranchesLoop(_, _, _)
BranchesLoop(branches, endPoint, sofar) ==
    IF branches = <<>> THEN Yields(sofar, "-")
    ELSE LET b == SetItem(Head(branches), "endPoint", endPoint) IN
         IF b.k = "raise" THEN Yields(sofar, b.e)
         ELSE BranchesLoop(Tail(branches), endPoint, Append(sofar, b.v))

\* for company in brand['companies']
RECURSIVE CompaniesLoop(_, _, _)
CompaniesLoop(companies, endPoint, sofar) ==
    IF companies = <<>> THEN Yields(sofar, "-")
    ELSE LET branches == get(Head(companies), <<"branches">>, TRUE, "list") IN
         IF branches.k = "raise" THEN Yields(sofar, branches.e)
         \* a null `branches` comes back as None: `for branch in None`
         ELSE IF IsNull(branches.v) THEN Yields(sofar, "TypeError")
         ELSE LET r == BranchesLoop(branches.v.v, endPoint, sofar) IN
              IF r.e # "-" THEN r
              ELSE CompaniesLoop(Tail(companies), endPoint, r.yields)

\* the body for a page that is a map
AgenciasOfPage(page) ==
    IF "brand" \notin DOMAIN page.v THEN Yields(<<>>, "-")
    ELSE LET brand == page.v["brand"]
             has == Contains(brand, "companies")
         IN  IF has.k = "raise" THEN Yields(<<>>, has.e)
             ELSE IF ~has.v.v THEN Yields(<<>>, "-")
             ELSE LET cs == Subscript(brand, "companies") IN
                  IF cs.k = "raise" THEN Yields(<<>>, cs.e)
                  ELSE IF Iterate(cs.v).k = "raise" THEN Yields(<<>>, "TypeError")
                  ELSE CompaniesLoop(Iterate(cs.v).v.v, page.v["endPoint"], <<>>)

---------------------------------------------------------------------------
(* models.Produto *)

NoValues == <<Null, Null, Null, Null>>

\* the fields Produto.__init__ sets; dados is the item, shared with the page
NewProduto(key, data) ==
    [key |-> key, dados |-> data, taxa |-> NoValues, clientes |-> NoValues,
     jurosRate |-> Null, jutosTipo |-> Null, minimumRate |-> Null, maximumRate |-> Null]

Built(p) == [k |-> "ret", p |-> p, e |-> "-"]
NotBuilt(e) == [k |-> "raise", p |-> NewProduto("", Null), e |-> e]

Faixas == <<"1_FAIXA", "2_FAIXA", "3_FAIXA", "4_FAIXA">>

\* for app in interestRate['applications']
RECURSIVE Applications(_, _)
Applications(apps, p) ==
    IF apps = <<>> THEN Built(p)
    ELSE LET app == Head(apps)
             interval == Subscript(app, "interval")
         IN  IF interval.k = "raise" THEN NotBuilt(interval.e)
             ELSE IF \E f \in 1..4 : Same(interval.v, JStr(<<Faixas[f]>>))
             THEN LET f == CHOOSE f \in 1..4 : Same(interval.v, JStr(<<Faixas[f]>>)) IN
                  Applications(Tail(apps),
                    [p EXCEPT
                       !.taxa[f] = get(app, <<"indexer", ".", "rate">>, FALSE, "float").v,
                       !.clientes[f] = get(app, <<"customers", ".", "rate">>, FALSE, "float").v])
             ELSE Applications(Tail(apps), p)

\* Produto(participante, key, data, interestRate)
Produto(key, data, interestRate) ==
    IF IsNull(interestRate) THEN Built(NewProduto(key, data))
    ELSE LET tipo == get(interestRate, <<"referentialRateIndexer">>, FALSE, "str").v
             p0 == [NewProduto(key, data) EXCEPT
                      !.jurosRate = get(interestRate, <<"rate">>, FALSE, "float").v,
                      !.jutosTipo = IF Same(tipo, JStr(<<"NA">>)) THEN Null ELSE tipo]
             has == Contains(interestRate, "applications")
             p1 == IF has.k = "raise" THEN NotBuilt(has.e)
                   ELSE IF ~has.v.v THEN Built(p0)
                   ELSE LET apps == Iterate(Subscript(interestRate, "applications").v) IN
                        IF apps.k = "raise" THEN NotBuilt(apps.e)
                        ELSE CHOOSE r \in {Applications(a, q) : a \in {apps.v.v}, q \in {p0}} : TRUE
         IN  IF p1.k = "raise" THEN p1
             ELSE Built([p1.p EXCEPT
                     !.minimumRate = get(interestRate, <<"minimumRate">>, FALSE, "float").v,
                     !.maximumRate = get(interestRate, <<"maximumRate">>, FALSE, "float").v])

\* Produto.jurosSeq
jurosSeq(p) ==
    LET seq == get(p.dados, <<"interestSequence">>, FALSE, "int").v IN
    IF IsNull(seq) THEN JInt(1) ELSE seq

\* spec.py: nomeProdutos, as (type, name) pairs
NomeProdutosPairs ==
    <<
       <<"CONTA_DEPOSITO_A_VISTA", "Conta corrente">>,
       <<"CONTA_POUPANCA", "Conta poupança">>,
       <<"CONTA_PAGAMENTO_PRE_PAGA", "Conta de pagamento pré-paga">>,
       <<"DESCONTO_DUPLICATAS", "Desconto de duplicatas">>,
       <<"DESCONTO_CHEQUES", "Desconto de cheques">>,
       <<"ANTECIPACAO_FATURA_CARTAO_CREDITO", "Antecipação de fatura de cartão de crédito">>,
       <<"OUTROS_DIREITOS_CREDITORIOS_DESCONTADOS", "Outros direitos creditórios descontados">>,
       <<"OUTROS_TITULOS_DESCONTADOS", "Outros títulos descontados">>,
       <<"EMPRESTIMO_CREDITO_PESSOAL_CONSIGNADO", "Crédito pessoal consignado">>,
       <<"EMPRESTIMO_CREDITO_PESSOAL_SEM_CONSIGNACAO", "Crédito pessoal sem consignação">>,
       <<"EMPRESTIMO_HOME_EQUITY", "Home equity">>,
       <<"EMPRESTIMO_MICROCREDITO_PRODUTIVO_ORIENTADO", "Microcrédito produtivo orientado">>,
       <<"EMPRESTIMO_CHEQUE_ESPECIAL", "Cheque especial">>,
       <<"EMPRESTIMO_CONTA_GARANTIDA", "Conta garantida">>,
       <<"EMPRESTIMO_CAPITAL_GIRO_PRAZO_VENCIMENTO_ATE_365_DIAS", "Capital de giro com prazo de vencimento até 365 dias">>,
       <<"EMPRESTIMO_CAPITAL_GIRO_PRAZO_VENCIMENTO_SUPERIOR_365_DIAS", "Capital de giro com prazo de vencimento superior a 365 dias">>,
       <<"EMPRESTIMO_CAPITAL_GIRO_ROTATIVO", "Capital de giro rotativo">>,
       <<"FINANCIAMENTO_AQUISICAO_BENS_VEICULOS_AUTOMOTORES", "Aquisição de bens - Veículos automotores">>,
       <<"FINANCIAMENTO_AQUISICAO_BENS_OUTROS_BENS", "Aquisição de bens - Outros bens">>,
       <<"FINANCIAMENTO_MICROCREDITO", "Financimento microcrédito">>,
       <<"FINANCIAMENTO_RURAL_CUSTEIO", "Financimento rural - Custeio">>,
       <<"FINANCIAMENTO_RURAL_INVESTIMENTO", "Financimento rural - Investimento">>,
       <<"FINANCIAMENTO_RURAL_COMERCIALIZACAO", "Financimento rural - Comercialização">>,
       <<"FINANCIAMENTO_RURAL_INDUSTRIALIZACAO", "Financimento rural - Industrialização">>,
       <<"FINANCIAMENTO_IMOBILIARIO_SISTEMA_FINANCEIRO_HABITACAO_SFH", "Financimento imobiliário - Sistema Financeiro da Habitação (SFH)">>,
       <<"FINANCIAMENTO_IMOBILIARIO_SISTEMA_FINANCEIRO_HABITACAO_SFI", "Financimento imobiliário - Sistema Financeiro da Imobiliário (SFI)">>,
       <<"CONTA_PAGAMENTO", "Conta salário">>,
       <<"EMPRESTIMO_CREDITO_PESSOAL", "Crédito pessoal sem consignação">>,
       <<"EMPRESTIMO_CREDITO_PESSOAL_NAO_CONSIGNADO", "Crédito pessoal sem consignação">>,
       <<"FINANCIAMENTO_IMOBILIARIO_SISTEMA_FINANCEIRO_HABITACAO-SFH", "Financimento imobiliário - Sistema Financeiro da Habitação (SFH)">>,
       <<"FINANCIAMENTO_IMOBILIARIO_SISTEMA_FINANCEIRO_HABITACAO-SFI", "Financimento imobiliário - Sistema Financeiro da Imobiliário (SFI)">>
    >>

\* spec.py: chaveCategorias, as (key, category) pairs
ChaveCategoriasPairs ==
    <<
       <<"personalAccounts", "Conta Corrente">>,
       <<"businessAccounts", "Conta Corrente">>,
       <<"personalCreditCards", "Cartão de Crédito">>,
       <<"businessCreditCards", "Cartão de Crédito">>,
       <<"personalLoans", "Empréstimo">>,
       <<"businessLoans", "Empréstimo">>,
       <<"personalFinancings", "Financiamento">>,
       <<"businessFinancings", "Financiamento">>,
       <<"personalInvoiceFinancings", "Antecipação de Recebíveis">>,
       <<"businessInvoiceFinancings", "Antecipação de Recebíveis">>,
       <<"personalUnarrangedAccountOverdraft", "Adiantamento a Depositante">>,
       <<"businessUnarrangedAccountOverdraft", "Adiantamento a Depositante">>
    >>

\* the dict of a sequence of pairs
DictOf(pairs) ==
    [k \in {pairs[i][1] : i \in DOMAIN pairs} |->
        pairs[CHOOSE i \in DOMAIN pairs : pairs[i][1] = k][2]]

nomeProdutos == DictOf(NomeProdutosPairs)

chaveCategorias == DictOf(ChaveCategoriasPairs)

\* hash(x) succeeds: `x in dict` raises TypeError for a list or a dict
Hashable(x) == x.t \notin {"list", "map"}

\* x is a key of the dict d of str keys (a str is a key as one whole piece)
IsKeyOf(x, d) == x.t = "str" /\ Len(x.v) = 1 /\ x.v[1] \in DOMAIN d

OverdraftKeys == {"personalUnarrangedAccountOverdraft", "businessUnarrangedAccountOverdraft"}

\* a nome that looks up a type in the table only when it is a str
Produto_nomeOfTextType(p) ==
    IF p.key \in OverdraftKeys THEN Ret(JStr(<<"Adiantamento a Depositante">>))
    ELSE IF "type" \in DOMAIN p.dados.v /\ IsKeyOf(p.dados.v["type"], nomeProdutos)
    THEN Ret(JStr(<<nomeProdutos[p.dados.v["type"].v[1]]>>))
    ELSE IF "name" \in DOMAIN p.dados.v /\ p.dados.v["name"].t = "str"
    THEN Ret(p.dados.v["name"])
    ELSE Ret(Null)

\* Produto.nome
Produto_nome(p) ==
    IF p.key \in OverdraftKeys THEN Ret(JStr(<<"Adiantamento a Depositante">>))
    ELSE IF "type" \in DOMAIN p.dados.v /\ ~Hashable(p.dados.v["type"])
    THEN Raise("TypeError")
    ELSE IF "type" \in DOMAIN p.dados.v /\ IsKeyOf(p.dados.v["type"], nomeProdutos)
    THEN Ret(JStr(<<nomeProdutos[p.dados.v["type"].v[1]]>>))
    ELSE IF "name" \in DOMAIN p.dados.v /\ p.dados.v["name"].t = "str"
    THEN Ret(p.dados.v["name"])
    ELSE Ret(Null)

\* Produto.categoria
Produto_categoria(p) ==
    IF p.key \in DOMAIN chaveCategorias THEN Ret(JStr(<<chaveCategorias[p.key]>>))
    ELSE Ret(JStr(<<"Outros">>))

---------------------------------------------------------------------------
(* models.Servico and models.Pacote *)

\* the fields Servico.__init__ and Pacote.__init__ set
NewTarifa(dados) == [dados |-> dados, taxa |-> NoValues, clientes |-> NoValues]

Priced(x) == [k |-> "ret", p |-> x, e |-> "-"]
NotPriced(e) == [k |-> "raise", p |-> NewTarifa(Null), e |-> e]

\* a price loop in which a price fills its own bucket and every bucket after it
RECURSIVE PricesFillUp(_, _)
PricesFillUp(prices, x) ==
    IF prices = <<>> THEN Priced(x)
    ELSE LET price == Head(prices)
             interval == Subscript(price, "interval")
         IN  IF interval.k = "raise" THEN NotPriced(interval.e)
             ELSE IF \E f \in 1..4 : Same(interval.v, JStr(<<Faixas[f]>>))
             THEN LET f == CHOOSE f \in 1..4 : Same(interval.v, JStr(<<Faixas[f]>>)) IN
                  PricesFillUp(Tail(prices),
                    [x EXCEPT
                       !.taxa = [g \in 1..4 |-> IF g >= f
                                   THEN get(price, <<"value">>, FALSE, "float").v ELSE x.taxa[g]],
                       !.clientes[f] = get(price, <<"customers", ".", "rate">>, FALSE, "float").v])
             ELSE PricesFillUp(Tail(prices), x)

\* for price in dados['prices']
RECURSIVE Prices(_, _)
Prices(prices, x) ==
    IF prices = <<>> THEN Priced(x)
    ELSE LET price == Head(prices)
             interval == Subscript(price, "interval")
         IN  IF interval.k = "raise" THEN NotPriced(interval.e)
             ELSE IF \E f \in 1..4 : Same(interval.v, JStr(<<Faixas[f]>>))
             THEN LET f == CHOOSE f \in 1..4 : Same(interval.v, JStr(<<Faixas[f]>>)) IN
                  Prices(Tail(prices),
                    [x EXCEPT
                       !.taxa[f] = get(price, <<"value">>, FALSE, "float").v,
                       !.clientes[f] = get(price, <<"customers", ".", "rate">>, FALSE, "float").v])
             ELSE Prices(Tail(prices), x)

\* Servico(openBaking, dados)
Servico(dados) ==
    IF dados.t # "map" THEN NotPriced("InvalidDataException")
    ELSE IF IsNull(get(dados, <<"prices">>, FALSE, "list").v) THEN Priced(NewTarifa(dados))
    ELSE CHOOSE r \in {Prices(ps, x) : ps \in {dados.v["prices"].v}, x \in {NewTarifa(dados)}} : TRUE

\* Pacote(openBaking, dados)
Pacote(dados) ==
    IF dados.t # "map" THEN NotPriced("InvalidDataException")
    ELSE IF IsNull(get(dados, <<"prices">>, FALSE, "list").v) THEN Priced(NewTarifa(dados))
    ELSE CHOOSE r \in {Prices(ps, x) : ps \in {dados.v["prices"].v}, x \in {NewTarifa(dados)}} : TRUE

\* for service in fees[key]: yield Servico(self.openBaking, service)
RECURSIVE ServicosOfList(_, _)
ServicosOfList(services, sofar) ==
    IF services = <<>> THEN Yields(sofar, "-")
    ELSE CHOOSE q \in {IF r.k = "raise" THEN Yields(sofar, r.e)
                       ELSE ServicosOfList(Tail(services), Append(sofar, r.p)) :
                           r \in {Servico(Head(services))}} : TRUE

FeeKeys == <<"priorityServices", "otherServices", "services">>

\* for key in ['priorityServices', 'otherServices', 'services']
RECURSIVE ServicosOfFees(_, _, _)
ServicosOfFees(fees, i, sofar) ==
    IF i > Len(FeeKeys) THEN Yields(sofar, "-")
    ELSE IF IsListAt(fees, FeeKeys[i])
    THEN CHOOSE q \in {IF r.e # "-" THEN r ELSE ServicosOfFees(fees, i + 1, r.yields) :
                          r \in {ServicosOfList(fees.v[FeeKeys[i]].v, sofar)}} : TRUE
    ELSE ServicosOfFees(fees, i + 1, sofar)

\* Produto.servicos
servicos(p) ==
    IF "fees" \in DOMAIN p.dados.v /\ p.dados.v["fees"].t = "map"
    THEN ServicosOfFees(p.dados.v["fees"], 1, <<>>)
    ELSE Yields(<<>>, "-")

\* for bundle in self.dados['serviceBundles']: the maps among them
RECURSIVE PacotesOfList(_, _)
PacotesOfList(bundles, sofar) ==
    IF bundles = <<>> THEN Yields(sofar, "-")
    ELSE IF Head(bundles).t # "map" THEN PacotesOfList(Tail(bundles), sofar)
    ELSE CHOOSE q \in {IF r.k = "raise" THEN Yields(sofar, r.e)
                       ELSE PacotesOfList(Tail(bundles), Append(sofar, r.p)) :
                           r \in {Pacote(Head(bundles))}} : TRUE

\* Produto.pacotes
pacotes(p) ==
    IF IsListAt(p.dados, "serviceBundles")
    THEN PacotesOfList(p.dados.v["serviceBundles"].v, <<>>)
    ELSE Yields(<<>>, "-")

---------------------------------------------------------------------------
(* models.Participante.produtos: the body of `for page in fetchUrlPages(...)` *)

ProdutoKeys ==
    <<"personalAccounts", "businessAccounts", "personalCreditCards", "businessCreditCards",
      "personalLoans", "businessLoans", "personalFinancings", "businessFinancings",
      "personalInvoiceFinancings", "businessInvoiceFinancings",
      "personalUnarrangedAccountOverdraft", "businessUnarrangedAccountOverdraft">>

NoKey == "None"

\* for k in keys: the first key the company has, else the key left from before
RECURSIVE FindKey(_, _, _)
FindKey(company, i, key) ==
    IF i > Len(ProdutoKeys) THEN [k |-> "ret", key |-> key, e |-> "-"]
    ELSE LET has == Contains(company, ProdutoKeys[i]) IN
         IF has.k = "raise" THEN [k |-> "raise", key |-> key, e |-> has.e]
         ELSE IF has.v.v THEN [k |-> "ret", key |-> ProdutoKeys[i], e |-> "-"]
         ELSE FindKey(company, i + 1, key)

\* the item after interestRate['interestSequence'] = i on its i-th rate; the rates
\* are item['interestRates'] (where = "interestRates") or item['interest']['rates']
WithRate(item, where, i, rate) ==
    IF where = "interestRates"
    THEN [item EXCEPT !.v["interestRates"].v[i] = rate]
    ELSE [item EXCEPT !.v["interest"].v["rates"].v[i] = rate]

\* for interestRate in rates: number it and yield Produto(self, key, item, interestRate)
RECURSIVE RatesLoop(_, _, _, _, _, _)

\* yield Produto(self, key, item, interestRate), then the next rate
RatesStep(key, item, where, rates, i, sofar, rate) ==
    \* each operand is worked out once, before it is used
    CHOOSE r \in {IF p.k = "raise" THEN [yields |-> sofar, e |-> p.e, item |-> item]
                  ELSE RatesLoop(key, item, where, rates, i + 1, Append(sofar, p.p)) :
                      p \in {Produto(key, item, rate)}} : TRUE

RatesLoop(key, item, where, rates, i, sofar) ==
    IF i > Len(rates) THEN [yields |-> sofar, e |-> "-", item |-> item]
    ELSE LET rate == SetItem(rates[i], "interestSequence", JInt(i)) IN
         IF rate.k = "raise" THEN [yields |-> sofar, e |-> rate.e, item |-> item]
         ELSE CHOOSE r \in {RatesStep(key, it, where, rates, i, sofar, rt) :
                               it \in {WithRate(item, where, i, rate.v)}, rt \in {rate.v}} : TRUE

\* the item's body with the lone Produto also yielded for an `interest` map that
\* holds no `rates` list (a variant)
ProdutosOfMarkedItemElseOne(key, item) ==
    IF IsListAt(item, "interestRates")
    THEN LET r == RatesLoop(key, item, "interestRates", item.v["interestRates"].v, 1, <<>>)
         IN  Yields(r.yields, r.e)
    ELSE IF "interest" \in DOMAIN item.v /\ IsListAt(item.v["interest"], "rates")
    THEN LET r == RatesLoop(key, item, "interest",
                            item.v["interest"].v["rates"].v, 1, <<>>)
         IN  Yields(r.yields, r.e)
    ELSE LET p == Produto(key, item, Null) IN
         IF p.k = "raise" THEN Yields(<<>>, p.e) ELSE Yields(<<p.p>>, "-")

\* the body of `for item in company[key]`, after item['endPoint'] = page['endPoint']
ProdutosOfMarkedItem(key, item) ==
    IF IsListAt(item, "interestRates")
    THEN LET r == RatesLoop(key, item, "interestRates", item.v["interestRates"].v, 1, <<>>)
         IN  Yields(r.yields, r.e)
    ELSE IF "interest" \in DOMAIN item.v /\ item.v["interest"].t = "map"
    THEN IF IsListAt(item.v["interest"], "rates")
         THEN LET r == RatesLoop(key, item, "interest",
                                 item.v["interest"].v["rates"].v, 1, <<>>)
              IN  Yields(r.yields, r.e)
         ELSE Yields(<<>>, "-")
    ELSE LET p == Produto(key, item, Null) IN
         IF p.k = "raise" THEN Yields(<<>>, p.e) ELSE Yields(<<p.p>>, "-")

\* the body of `for item in company[key]`
ProdutosOfItem(key, item0, endPoint) ==
    LET set == SetItem(item0, "endPoint", endPoint) IN
    IF set.k = "raise" THEN Yields(<<>>, set.e)
    ELSE CHOOSE r \in {ProdutosOfMarkedItem(key, item) : item \in {set.v}} : TRUE

RECURSIVE ItemsLoop(_, _, _, _)
ItemsLoop(key, items, endPoint, sofar) ==
    IF items = <<>> THEN Yields(sofar, "-")
    ELSE CHOOSE q \in {IF r.e # "-" THEN Yields(sofar \o r.yields, r.e)
                       ELSE ItemsLoop(key, Tail(items), endPoint, sofar \o r.yields) :
                           r \in {ProdutosOfItem(key, Head(items), endPoint)}} : TRUE

\* the company loop's body with key set to None for each company (a variant)
ProdutosOfCompanyOwnKey(company, endPoint, key0) ==
    LET found == FindKey(company, 1, NoKey)
        items == Subscript(company, found.key)
    IN  IF found.k = "raise" THEN [yields |-> <<>>, e |-> found.e, key |-> NoKey]
        ELSE IF found.key = NoKey THEN [yields |-> <<>>, e |-> "-", key |-> NoKey]
        ELSE IF items.k = "raise" THEN [yields |-> <<>>, e |-> items.e, key |-> found.key]
        ELSE IF items.v.t # "list" THEN [yields |-> <<>>, e |-> "-", key |-> found.key]
        ELSE CHOOSE q \in {[yields |-> r.yields, e |-> r.e, key |-> k] :
                              r \in {ItemsLoop(found.key, items.v.v, endPoint, <<>>)},
                              k \in {found.key}} : TRUE

\* the body of `for company in brand['companies']`; key is what the loop before left
ProdutosOfCompany(company, endPoint, key0) ==
    LET found == FindKey(company, 1, key0)
        items == Subscript(company, found.key)
    IN  IF found.k = "raise" THEN [yields |-> <<>>, e |-> found.e, key |-> key0]
        ELSE IF found.key = NoKey THEN [yields |-> <<>>, e |-> "-", key |-> NoKey]
        ELSE IF items.k = "raise" THEN [yields |-> <<>>, e |-> items.e, key |-> found.key]
        ELSE IF items.v.t # "list" THEN [yields |-> <<>>, e |-> "-", key |-> found.key]
        ELSE CHOOSE q \in {[yields |-> r.yields, e |-> r.e, key |-> k] :
                              r \in {ItemsLoop(found.key, items.v.v, endPoint, <<>>)},
                              k \in {found.key}} : TRUE

\* for company in brand['companies'], key being set to None once before the loop
RECURSIVE ProdutosOfCompanies(_, _, _, _)
ProdutosOfCompanies(companies, endPoint, key0, sofar) ==
    IF companies = <<>> THEN Yields(sofar, "-")
    ELSE CHOOSE q \in {IF r.e # "-" THEN Yields(sofar \o r.yields, r.e)
                       ELSE ProdutosOfCompanies(Tail(companies), endPoint, r.key,
                                                sofar \o r.yields) :
                           r \in {ProdutosOfCompany(Head(companies), endPoint, key0)}} : TRUE

\* the body for a page that is a map
ProdutosOfPage(page) ==
    IF "brand" \notin DOMAIN page.v THEN Yields(<<>>, "-")
    ELSE LET brand == page.v["brand"]
             has == Contains(brand, "companies")
         IN  IF has.k = "raise" THEN Yields(<<>>, has.e)
             ELSE IF ~has.v.v THEN Yields(<<>>, "-")
             ELSE LET cs == Subscript(brand, "companies") IN
                  IF cs.k = "raise" THEN Yields(<<>>, cs.e)
                  ELSE IF Iterate(cs.v).k = "raise" THEN Yields(<<>>, "TypeError")
                  ELSE CHOOSE r \in {ProdutosOfCompanies(c, ep, NoKey, <<>>) :
                                        c \in {Iterate(cs.v).v.v}, ep \in {page.v["endPoint"]}} : TRUE

---------------------------------------------------------------------------
(* models.Participante: construction from an element of the directory *)

\* a list of endpoint urls collected so far, or the exception that ended the loops
Eps(urls) == [k |-> "ret", urls |-> urls, e |-> "-"]
EpsRaise(e) == [k |-> "raise", urls |-> <<>>, e |-> e]

\* `k in x and isinstance(x[k], list)`: the list, Null when the test is false
ListAt(x, k) ==
    LET has == Contains(x, k) IN
    IF has.k = "raise" THEN has
    ELSE IF ~has.v.v THEN Ret(Null)
    ELSE LET val == Subscript(x, k) IN
         IF val.k = "raise" THEN val
         ELSE IF val.v.t = "list" THEN val ELSE Ret(Null)

\* for endPoint in api['ApiDiscoveryEndpoints']: the str ApiEndpoint of each
RECURSIVE EndpointsOfApi(_, _)
EndpointsOfApi(endPoints, sofar) ==
    IF endPoints = <<>> THEN Eps(sofar)
    ELSE LET has == Contains(Head(endPoints), "ApiEndpoint") IN
         IF has.k = "raise" THEN EpsRaise(has.e)
         ELSE IF ~has.v.v THEN EndpointsOfApi(Tail(endPoints), sofar)
         ELSE LET val == Subscript(Head(endPoints), "ApiEndpoint") IN
              IF val.k = "raise" THEN EpsRaise(val.e)
              ELSE IF val.v.t = "str"
              THEN EndpointsOfApi(Tail(endPoints), Append(sofar, val.v.v))
              ELSE EndpointsOfApi(Tail(endPoints), sofar)

\* for api in server['ApiResources']
RECURSIVE EndpointsOfServer(_, _)
EndpointsOfServer(apis, sofar) ==
    IF apis = <<>> THEN Eps(sofar)
    ELSE LET eps == ListAt(Head(apis), "ApiDiscoveryEndpoints") IN
         IF eps.k = "raise" THEN EpsRaise(eps.e)
         ELSE IF IsNull(eps.v) THEN EndpointsOfServer(Tail(apis), sofar)
         ELSE LET r == EndpointsOfApi(eps.v.v, sofar) IN
              IF r.k = "raise" THEN r ELSE EndpointsOfServer(Tail(apis), r.urls)

\* for server in data['AuthorisationServers']
RECURSIVE EndpointsOfServers(_, _)
EndpointsOfServers(servers, sofar) ==
    IF servers = <<>> THEN Eps(sofar)
    ELSE LET apis == ListAt(Head(servers), "ApiResources") IN
         IF apis.k = "raise" THEN EpsRaise(apis.e)
         ELSE IF IsNull(apis.v) THEN EndpointsOfServers(Tail(servers), sofar)
         ELSE LET r == EndpointsOfServer(apis.v.v, sofar) IN
              IF r.k = "raise" THEN r ELSE EndpointsOfServers(Tail(servers), r.urls)

NoParticipante == [dados |-> Null, endpoints |-> <<>>]

Made(p) == [k |-> "ret", p |-> p, e |-> "-"]
NotMade(e) == [k |-> "raise", p |-> NoParticipante, e |-> e]

\* a constructor that takes an AuthorisationServers of any type for a list of servers
ParticipanteAnyServers(data) ==
    IF data.t # "map" THEN NotMade("InvalidDataException")
    ELSE IF "AuthorisationServers" \notin DOMAIN data.v THEN NotMade("InvalidDataException")
    ELSE IF data.v["AuthorisationServers"].t # "list"
    THEN Made([dados |-> data, endpoints |-> <<>>])
    ELSE LET r == EndpointsOfServers(data.v["AuthorisationServers"].v, <<>>) IN
         IF r.k = "raise" THEN NotMade(r.e)
         ELSE Made([dados |-> data, endpoints |-> r.urls])

\* Participante(openBaking, data)
Participante(data) ==
    IF data.t # "map" THEN NotMade("InvalidDataException")
    ELSE IF "AuthorisationServers" \notin DOMAIN data.v THEN NotMade("InvalidDataException")
    ELSE IF data.v["AuthorisationServers"].t # "list" THEN NotMade("InvalidDataException")
    ELSE LET r == EndpointsOfServers(data.v["AuthorisationServers"].v, <<>>) IN
         IF r.k = "raise" THEN NotMade(r.e)
         ELSE Made([dados |-> data, endpoints |-> r.urls])

\* Participante.nome
nome(p) ==
    LET r == Subscript(p.dados, "OrganisationName") IN
    IF r.k = "raise" THEN r ELSE Ret(JStr(PyStr(r.v)))

\* Participante.cnpj: re.sub on the registration number, 0 when no digit is left
cnpj(p) ==
    LET r == Subscript(p.dados, "RegistrationNumber") IN
    IF r.k = "raise" THEN r
    ELSE IF r.v.t # "str" THEN Raise("TypeError")
    ELSE LET res == StripNonDigits(r.v.v) IN
         IF res = <<>> THEN Ret(JInt(0)) ELSE ParseInt(res)

\* Participante.identificador
identificador(p) == get(p.dados, <<"OrganisationId">>, TRUE, "str")

---------------------------------------------------------------------------
(* The servers of a participant *)

BranchDoc(i) == JMap(One("identification", JMap(One("code", JStr(<<Digits[i + 1]>>)))))

PageData(i) ==
    JMap(One("brand", JMap(One("companies",
        JList(<<JMap(One("branches", JList(<<BranchDoc(i)>>)))>>)))))

\* page i of a chain of n pages; the last page has no links, or a null next link
PageRoot(i, n, last) ==
    IF i = n /\ last = "nolinks" THEN JMap(One("data", PageData(i)))
    ELSE JMap([k \in {"data", "links"} |->
            IF k = "data" THEN PageData(i)
            ELSE JMap(One("next", IF i = n THEN Null ELSE JStr(PageUrl(i + 1))))])

\* a first page that is not a page of branches: the shapes of its body
OddShapes == {"null", "list", "nodata", "dataNull", "dataList", "dataStr", "dataInt"}

OddRoot(shape) ==
    CASE shape = "null" -> Null
      [] shape = "list" -> JList(<<PageData(1)>>)
      [] shape = "nodata" -> JMap(One("links", JMap(One("next", JStr(PageUrl(2))))))
      [] shape = "dataNull" -> JMap(One("data", Null))
      [] shape = "dataList" -> JMap(One("data", JList(<<BranchDoc(1)>>)))
      [] shape = "dataStr" -> JMap(One("data", JStr(<<"abc">>)))
      [] shape = "dataInt" -> JMap(One("data", JInt(7)))

\* the directory's answer: no answer, a body that is no JSON, or a JSON body that is
\* null, a map, or a list of elements of the kinds named in members
NoDirectory == [kind |-> "fail", members |-> <<>>]

\* kinds of elements: a member whose servers answer well ("good"), answer
\* well with two pages of branches ("paged"), answer {"data": null} ("oddPage") or do
\* not answer ("down"), a member whose servers answer well and whose element has no
\* RegistrationNumber ("noCnpj"), a member whose servers list several products
\* ("rich"), and elements that are no well-formed member
MemberKinds ==
    {"good", "paged", "oddPage", "down", "noCnpj", "noServers", "serversMap", "text",
     "oddServer", "rich"}

Directories ==
    [kind : {"fail", "html", "null", "map"}, members : {<<>>}]
    \cup [kind : {"list"}, members : UNION {[1..k -> MemberKinds] : k \in 0..MaxMembers}]

\* AuthorisationServers declaring the endpoints urls
ServersDoc(urls) ==
    JList(<<JMap(One("ApiResources", JList(<<JMap(One("ApiDiscoveryEndpoints",
        JList([j \in 1..Len(urls) |-> JMap(One("ApiEndpoint", JStr(urls[j])))])))>>)))>>)

MemberKeys == {"OrganisationId", "OrganisationName", "RegistrationNumber", "AuthorisationServers"}

\* the i-th element of the directory, with servers as given
MemberDoc(i, servers) ==
    JMap([k \in MemberKeys |->
        CASE k = "OrganisationId" -> JStr(<<"org-", Digits[i + 1]>>)
          [] k = "OrganisationName" -> JStr(<<"Bank ", Digits[i + 1]>>)
          [] k = "RegistrationNumber" -> JStr(<<"1", "2", ".", "3", "/", Digits[i + 1]>>)
          [] k = "AuthorisationServers" -> servers])

Element(kind, i) ==
    CASE kind \in {"good", "paged", "oddPage", "down", "rich"} ->
            MemberDoc(i, ServersDoc(<<BranchesUrl(i), ProductsUrl(i)>>))
      [] kind = "noCnpj" ->
            LET doc == MemberDoc(i, ServersDoc(<<BranchesUrl(i), ProductsUrl(i)>>)) IN
            JMap([k \in MemberKeys \ {"RegistrationNumber"} |-> doc.v[k]])
      [] kind = "noServers" -> JMap(One("OrganisationId", JStr(<<"org-", Digits[i + 1]>>)))
      [] kind = "serversMap" -> MemberDoc(i, JMap(EmptyMap))
      [] kind = "text" -> JStr(<<"abc">>)
      [] kind = "oddServer" -> MemberDoc(i, JList(<<JInt(5)>>))

DirectoryBody(d) ==
    CASE d.kind = "null" -> Null
      [] d.kind = "map" -> JMap(One("error", JStr(<<"not found">>)))
      [] d.kind = "list" -> JList([i \in 1..Len(d.members) |-> Element(d.members[i], i)])

DirectoryOutcome(d) ==
    CASE d.kind = "fail" -> NetFail("Timeout")
      [] d.kind = "html" -> NetResponse(200, HtmlBody)
      [] OTHER -> NetResponse(200, Dump(DirectoryBody(d)))

\* what a good member's products endpoint lists: one account with a fee and a bundle
ServiceDoc ==
    JMap(Pair("name", JStr(<<"svc">>),
              "prices", JList(<<JMap(Pair("interval", JStr(<<"1_FAIXA">>),
                                          "value", JStr(<<"1", ".", "5">>)))>>)))

ProductItem(i) ==
    JMap([k \in {"name", "fees", "serviceBundles"} |->
        CASE k = "name" -> JStr(<<"conta ", Digits[i + 1]>>)
          [] k = "fees" -> JMap(One("services", JList(<<ServiceDoc>>)))
          [] k = "serviceBundles" -> JList(<<ServiceDoc>>)])

MemberProducts(i) ==
    JMap(One("brand", JMap(One("companies",
        JList(<<JMap(One("personalAccounts", JList(<<ProductItem(i)>>)))>>)))))

\* a loan with two interest rates and a fee
LoanItem ==
    JMap([k \in {"name", "interestRates", "fees"} |->
        CASE k = "name" -> JStr(<<"loan">>)
          [] k = "interestRates" ->
                JList(<<JMap(One("rate", JStr(<<"0", ".", "5">>))),
                        JMap(One("referentialRateIndexer", JStr(<<"NA">>)))>>)
          [] k = "fees" -> JMap(One("services", JList(<<ServiceDoc>>)))])

\* what a member with several products lists: a product with no fee and no bundle, a
\* loan with two rates and a fee, and one with a fee and a bundle
RichProducts(i) ==
    JMap(One("brand", JMap(One("companies",
        JList(<<JMap(One("personalLoans",
            JList(<<JMap(One("name", JStr(<<"bare">>))), LoanItem, ProductItem(i)>>)))>>)))))

\* what the servers of member i, of the given kind, do with a GET of url; besides the
\* kinds of members: a first page that names itself as the next ("cyclic"), companies
\* with no list of branches and no product family ("noBranches"), a company that is
\* a text ("badCompany"), and a body that is no JSON ("html" and every other kind)
MemberOutcome(kind, i, url) ==
    CASE kind \in {"good", "noCnpj", "rich"} /\ url = BranchesUrl(i) ->
            NetResponse(200, Dump(JMap(One("data", PageData(i)))))
      [] kind = "paged" /\ url = BranchesUrl(i) ->
            NetResponse(200, Dump(JMap(Pair("data", PageData(i),
                "links", JMap(One("next", JStr(MoreBranchesUrl(i))))))))
      [] kind = "paged" /\ url = MoreBranchesUrl(i) ->
            NetResponse(200, Dump(JMap(One("data", PageData(i)))))
      [] kind \in {"good", "paged", "noCnpj"} /\ url = ProductsUrl(i) ->
            NetResponse(200, Dump(JMap(One("data", MemberProducts(i)))))
      [] kind = "rich" /\ url = ProductsUrl(i) ->
            NetResponse(200, Dump(JMap(One("data", RichProducts(i)))))
      [] kind = "cyclic" /\ url \in {BranchesUrl(i), ProductsUrl(i)} ->
            NetResponse(200, Dump(JMap(Pair(
                "data", IF url = BranchesUrl(i) THEN PageData(i) ELSE MemberProducts(i),
                "links", JMap(One("next", JStr(url)))))))
      [] kind = "noBranches" ->
            NetResponse(200, Dump(JMap(One("data", JMap(One("brand", JMap(One("companies",
                JList(<<JMap(One("name", JStr(<<"abc">>)))>>)))))))))
      [] kind = "badCompany" ->
            NetResponse(200, Dump(JMap(One("data", JMap(One("brand", JMap(One("companies",
                JList(<<JStr(<<"abc">>)>>)))))))))
      [] kind = "oddPage" -> NetResponse(200, Dump(JMap(One("data", Null))))
      [] kind = "down" -> NetFail("Timeout")
      [] OTHER -> NetResponse(404, HtmlBody)

\* a chain of n pages, or one odd first page
Worlds ==
    [n : 1..MaxPages, last : {"nolinks", "null"}, first : {"chain"}, directory : {NoDirectory}]
    \cup [n : {1}, last : {"nolinks"}, first : OddShapes, directory : {NoDirectory}]

\* what the network does with a GET of url in world w
ServerOutcome(w, url) ==
    IF url = DirUrl THEN DirectoryOutcome(w.directory)
    ELSE IF \E i \in 1..Len(w.directory.members) :
                url \in {BranchesUrl(i), MoreBranchesUrl(i), ProductsUrl(i)}
    THEN LET i == CHOOSE j \in 1..Len(w.directory.members) :
                      url \in {BranchesUrl(j), MoreBranchesUrl(j), ProductsUrl(j)}
         IN  MemberOutcome(w.directory.members[i], i, url)
    ELSE IF w.first # "chain"
    THEN IF url = PageUrl(1) THEN NetResponse(200, Dump(OddRoot(w.first)))
         ELSE NetResponse(404, HtmlBody)
    ELSE IF \E i \in 1..w.n : url = PageUrl(i)
    THEN NetResponse(200, Dump(PageRoot(CHOOSE i \in 1..w.n : url = PageUrl(i), w.n, w.last)))
    ELSE NetResponse(404, HtmlBody)

---------------------------------------------------------------------------
(* The states in which no walk and no normalization is under way *)

NoGen == [url |-> <<>>, pc |-> "none", root |-> Null]

\* declared is self._endpoints, eps the part of it the endpoint loop has not reached,
\* and asked counts the elements the consumer has asked generators of pages for
WalkIdleValue ==
    [mode |-> "idle", cache |-> FALSE, declared |-> <<>>, eps |-> <<>>, gen |-> NoGen,
     asked |-> 0, pages |-> <<>>, out |-> <<>>, status |-> "idle", e |-> "-"]

IdleWorld == [n |-> 1, last |-> "nolinks", first |-> "chain", directory |-> NoDirectory]

WalkIdle == world = IdleWorld /\ walk = WalkIdleValue

\* no search criterion
NoCriterion == [kind |-> "none", v |-> Null]

DirIdleValue ==
    [op |-> "none", cache |-> FALSE, status |-> "idle", e |-> "-",
     data |-> <<>>, i |-> 0, out |-> <<>>, crit |-> NoCriterion, found |-> Null]

DirIdle == listing = DirIdleValue

NormIdleValue ==
    [page |-> Null, out |-> Yields(<<>>, "-"), op |-> "none", cls |-> "none",
     key |-> NoKey, rate |-> Null, read |-> "none", values |-> <<>>]

NormIdle == norm = NormIdleValue

ReportNames == {"agencias", "produtos", "servicos", "pacotes"}

\* no sweep of the cache made: its argument, the deletions that fail, the files before
NoSweep == [idadeMaxima |-> 0, failing |-> {}, before |-> <<>>]

BatchIdleValue ==
    [op |-> "none", ignoraErros |-> FALSE, queue |-> <<>>, report |-> "-", sweep |-> NoSweep,
     members |-> <<>>, i |-> 0,
     seq |-> 0, rows |-> [r \in ReportNames |-> <<>>], log |-> <<>>, pc |-> "idle",
     e |-> "-"]

BatchIdle == batch = BatchIdleValue

---------------------------------------------------------------------------
(* The fetcher as a state machine: calls of fetchUrl and the passing of days *)

\* calendar days the clock runs through (0..MaxDay)
MaxDay == 1
\* fetchUrl calls in one behaviour
MaxCalls == 3

NoWrite == [day |-> -1, doc |-> Null]

NoCall == [op |-> "none", n |-> 0, url |-> <<>>, cache |-> FALSE, day |-> 0,
           out |-> Ret(Null), net |-> FALSE, from |-> "none", wrote |-> FALSE,
           resp |-> NoRequest, prior |-> NoFile, priorWritten |-> NoWrite]

FetchInit ==
    /\ today = 0
    /\ cacheDir \in {"absent", "file"}
    /\ files = [f \in CacheEntries |-> NoFile]
    /\ netLog = <<>>
    /\ call = NoCall
    /\ written = [u \in AllUrls |-> NoWrite]

FetchIdle ==
    /\ today = 0
    /\ cacheDir = "absent"
    /\ files = [f \in CacheEntries |-> NoFile]
    /\ netLog = <<>>
    /\ call = NoCall
    /\ written = [u \in AllUrls |-> NoWrite]

fetchVars == <<today, cacheDir, files, netLog, call, written>>

\* the effects of one call fetchUrl(url, cacheDir)
FetchCall(url, useCache, outcome) ==
    /\ \E r \in {fetchUrl(url, useCache, outcome, cacheDir, files, today)} :
       /\ cacheDir' = r.dir
       /\ files' = r.files
       /\ netLog' = IF r.net THEN Append(netLog, url) ELSE netLog
       /\ written' = IF r.wrote
                     THEN [written EXCEPT ![url] = [day |-> today, doc |-> r.out.v]]
                     ELSE written
       /\ call' = [op |-> "fetchUrl", n |-> call.n + 1, url |-> url, cache |-> useCache,
                   day |-> today, out |-> r.out, net |-> r.net, from |-> r.from,
                   wrote |-> r.wrote,
                   resp |-> IF r.net THEN outcome ELSE NoRequest,
                   prior |-> files[CacheEntry(url)],
                   priorWritten |-> written[url]]

\* one call fetchUrl(url, cacheDir) by any caller
FetchUrl(url, useCache, outcome) ==
    /\ call.n < MaxCalls
    /\ FetchCall(url, useCache, outcome)
    /\ UNCHANGED <<today, acc, world, walk, norm, listing, batch>>

\* midnight: date.today() moves on
Tick ==
    /\ today < MaxDay
    /\ today' = today + 1
    /\ UNCHANGED <<cacheDir, files, netLog, call, written, acc, world, walk, norm, listing,
                   batch>>

Init == FetchInit /\ acc = AccIdle /\ WalkIdle /\ NormIdle /\ DirIdle /\ BatchIdle

Next ==
    \/ \E url \in FetchUrls, useCache \in BOOLEAN, outcome \in NetOutcomes :
            FetchUrl(url, useCache, outcome)
    \/ Tick

Spec == Init /\ [][Next]_vars

---------------------------------------------------------------------------
(* The accessor as a state machine: calls of get and getInt on drawn inputs *)

CallGet(required, valueType) ==
    /\ acc.op = "none"
    /\ acc' = [acc EXCEPT !.op = "get", !.required = required, !.valueType = valueType,
                          !.out = get(acc.d, acc.key, required, valueType)]
    /\ UNCHANGED <<fetchVars, world, walk, norm, listing, batch>>

CallGetInt ==
    /\ acc.op = "none"
    /\ acc' = [acc EXCEPT !.op = "getInt", !.out = getInt(acc.d, acc.key)]
    /\ UNCHANGED <<fetchVars, world, walk, norm, listing, batch>>

InitGet ==
    /\ acc \in {[AccIdle EXCEPT !.d = d, !.key = key] : d \in AccDocs, key \in AccKeys}
    /\ FetchIdle /\ WalkIdle /\ NormIdle /\ DirIdle /\ BatchIdle

NextGet ==
    \/ \E required \in BOOLEAN, valueType \in ValueTypes : CallGet(required, valueType)
    \/ CallGetInt

SpecGet == InitGet /\ [][NextGet]_vars

---------------------------------------------------------------------------
(* A walk: a consumer's loop over fetchUrlPages(endpoint), one resumption of the
   generator and one run of the loop body at a time *)

\* the endpoints the consumer walks: models.py:110-112
IsBranchesEndpoint(url) == url # <<>> /\ url[Len(url)] = "/open-banking/channels/v1/branches"

\* models.py:147: the url has the products path in it
IsProductsEndpoint(url) == \E i \in 1..Len(url) : url[i] = "/open-banking/products-services/v1/"

\* the body of `for page in fetchUrlPages(...)` for a page that is a map
BodyOfPage(mode, page) ==
    CASE mode = "agencias" -> AgenciasOfPage(page)
      [] mode = "produtos" -> ProdutosOfPage(page)
      [] OTHER -> Yields(<<>>, "-")

\* the loop `for endPoint in self._endpoints` up to the next endpoint it walks
RECURSIVE NextEndpoint(_, _)
NextEndpoint(mode, eps) ==
    IF eps = <<>> THEN <<>>
    ELSE IF \/ mode = "pages"
            \/ mode = "agencias" /\ IsBranchesEndpoint(Head(eps))
            \/ mode = "produtos" /\ IsProductsEndpoint(Head(eps))
    THEN eps
    ELSE NextEndpoint(mode, Tail(eps))

WalkRaise(e) ==
    walk' = [walk EXCEPT !.status = "raised", !.e = e, !.gen = NoGen,
                         !.asked = walk.asked + 1]

\* the generator is exhausted: list() returns; agencias leaves the endpoint loop
\* (break); produtos goes on to the next endpoint
WalkEndpointDone ==
    walk' = [walk EXCEPT !.gen = NoGen, !.asked = walk.asked + 1,
                         !.status = IF walk.mode = "produtos" THEN "running" ELSE "done"]

\* a first resumption that requests the endpoint's first page and, ahead of any
\* demand, the page after it
WalkFirstCoreAhead ==
    /\ walk.status = "running" /\ walk.gen.pc = "none"
    /\ \E eps \in {NextEndpoint(walk.mode, walk.eps)} :
         /\ eps # <<>>
         /\ netLog' = netLog \o <<Head(eps), Head(eps) \o <<"?page=2">>>>
         /\ walk' = [walk EXCEPT !.eps = Tail(eps), !.asked = walk.asked + 1,
                       !.status = IF walk.mode = "produtos" THEN "running" ELSE "done"]
    /\ UNCHANGED <<cacheDir, files, call, written>>

\* the consumer asks fetchUrlPages(endpoint) for its first element: the page is fetched
WalkFirstCore ==
    /\ walk.status = "running" /\ walk.gen.pc = "none"
    /\ LET eps == NextEndpoint(walk.mode, walk.eps) IN
       IF eps = <<>>
       THEN /\ walk' = [walk EXCEPT !.eps = <<>>, !.status = "done"]
            /\ UNCHANGED fetchVars
       ELSE /\ FetchCall(Head(eps), walk.cache, ServerOutcome(world, Head(eps)))
            /\ \E g \in {PagesFirst(Head(eps), call'.out)} :
                 CASE g.k = "raise" -> WalkRaise(g.e)
                   [] g.k = "stop" ->
                        walk' = [walk EXCEPT !.eps = Tail(eps), !.asked = walk.asked + 1,
                                   !.status = IF walk.mode = "produtos" THEN "running" ELSE "done"]
                   [] g.k = "yield" ->
                        \E b \in {BodyOfPage(walk.mode, g.v)} :
                          walk' = [walk EXCEPT
                            !.eps = Tail(eps),
                            !.asked = walk.asked + 1,
                            !.gen = [url |-> Head(eps), pc |-> "afterData", root |-> g.root],
                            !.pages = Append(walk.pages, g.v),
                            !.out = walk.out \o b.yields,
                            !.status = IF b.e = "-" THEN "running" ELSE "raised",
                            !.e = b.e]

WalkFirst == WalkFirstCore /\ UNCHANGED <<today, acc, world, norm, listing, batch>>

\* the consumer asks for the next element: the generator reads the next link and yields
\* a generator for it.  list() keeps it; agencias tests `'brand' in page` on it, which
\* iterates it: the next page is fetched, its elements compared with 'brand' and dropped.
WalkSecondCore ==
    /\ walk.status = "running" /\ walk.gen.pc = "afterData"
    /\ \E g \in {PagesSecond(walk.gen.root)} :
         IF g.k = "stop"
         THEN WalkEndpointDone /\ UNCHANGED fetchVars
         ELSE IF walk.mode = "pages"
         THEN /\ walk' = [walk EXCEPT !.gen.pc = "afterNext", !.asked = walk.asked + 1,
                                      !.pages = Append(walk.pages, g.v)]
              /\ UNCHANGED fetchVars
         ELSE /\ FetchCall(g.v.v, walk.cache, ServerOutcome(world, g.v.v))
              /\ \E n \in {PagesFirst(g.v.v, call'.out)} :
                   IF n.k = "raise" THEN WalkRaise(n.e)
                   ELSE walk' = [walk EXCEPT !.gen.pc = "afterNext",
                                             !.asked = walk.asked + 1,
                                             !.pages = Append(walk.pages, g.v)]

WalkSecond == WalkSecondCore /\ UNCHANGED <<today, acc, world, norm, listing, batch>>

\* the consumer asks once more: the generator ends
WalkThirdCore ==
    /\ walk.status = "running" /\ walk.gen.pc = "afterNext"
    /\ WalkEndpointDone
    /\ UNCHANGED <<cacheDir, files, netLog, call, written>>

WalkThird == WalkThirdCore /\ UNCHANGED <<today, acc, world, norm, listing, batch>>

InitPages ==
    /\ world \in Worlds
    /\ walk \in {[WalkIdleValue EXCEPT !.mode = m, !.cache = c, !.eps = <<UrlA>>,
                                       !.declared = <<UrlA>>,
                                       !.status = "running"] :
                    m \in {"pages", "agencias"}, c \in BOOLEAN}
    /\ FetchIdle /\ acc = AccIdle /\ NormIdle /\ DirIdle /\ BatchIdle

NextPages == WalkFirst \/ WalkSecond \/ WalkThird \/ Tick

SpecPages == InitPages /\ [][NextPages]_vars

---------------------------------------------------------------------------
(* A participant that declares the endpoints of several servers, walked by agencias
   and by produtos *)

\* what the servers of one host do, as in MemberOutcome
EndpointKinds ==
    {"good", "paged", "cyclic", "oddPage", "down", "html", "noBranches", "badCompany"}

\* the declared endpoints: a branches and a products endpoint per host, in either order
DeclaredForward ==
    [j \in 1..(2 * MaxMembers) |->
        IF j % 2 = 1 THEN BranchesUrl((j + 1) \div 2) ELSE ProductsUrl(j \div 2)]

DeclaredLists ==
    {DeclaredForward, [j \in 1..(2 * MaxMembers) |-> DeclaredForward[2 * MaxMembers + 1 - j]]}

\* the consumer leaves its loop: the suspended generator is dropped, nothing is run
WalkStop ==
    /\ walk.status = "running"
    /\ walk' = [walk EXCEPT !.status = "stopped", !.gen = NoGen]
    /\ UNCHANGED <<fetchVars, acc, world, norm, listing, batch>>

InitEndpoints ==
    /\ world \in {[IdleWorld EXCEPT !.directory = [kind |-> "list", members |-> ks]] :
                     ks \in [1..MaxMembers -> EndpointKinds]}
    /\ walk \in {[WalkIdleValue EXCEPT !.mode = m, !.cache = TRUE, !.declared = eps,
                                       !.eps = eps, !.status = "running"] :
                    m \in {"agencias", "produtos"}, eps \in DeclaredLists}
    /\ FetchIdle /\ acc = AccIdle /\ NormIdle /\ DirIdle /\ BatchIdle

NextEndpoints == WalkFirst \/ WalkSecond \/ WalkThird \/ WalkStop

SpecEndpoints == InitEndpoints /\ [][NextEndpoints]_vars

---------------------------------------------------------------------------
(* OpenBankingBR.participantes: a generator over the directory, one resumption at a
   time *)

\* from one yield to the next: `for p in data: yield Participante(self, p)`
Advance(l) ==
    IF l.i = Len(l.data) THEN [l EXCEPT !.status = "done"]
    ELSE LET made == Participante(l.data[l.i + 1]) IN
         IF made.k = "raise" THEN [l EXCEPT !.status = "raised", !.e = made.e]
         ELSE [l EXCEPT !.i = l.i + 1, !.out = Append(l.out, made.p)]

\* the checks on the fetched directory, up to the first yield
Listed(l, data) ==
    IF data.k = "raise" THEN [l EXCEPT !.status = "raised", !.e = data.e]
    ELSE IF IsNull(data.v) THEN [l EXCEPT !.status = "raised", !.e = "OpenBankingException"]
    ELSE IF data.v.t # "list" THEN [l EXCEPT !.status = "raised", !.e = "InvalidDataException"]
    ELSE Advance([l EXCEPT !.status = "running", !.data = data.v.v])

\* the first next(): the directory is fetched and checked
DirFirst ==
    /\ listing.status = "start"
    /\ FetchCall(DirUrl, listing.cache, ServerOutcome(world, DirUrl))
    /\ \E r \in {call'.out} : listing' = Listed(listing, r)
    /\ UNCHANGED <<today, acc, world, walk, norm, batch>>

\* a later next()
DirNext ==
    /\ listing.op = "participantes" /\ listing.status = "running"
    /\ listing' = Advance(listing)
    /\ UNCHANGED <<fetchVars, acc, world, walk, norm, batch>>

InitDir ==
    /\ world \in [n : {1}, last : {"nolinks"}, first : {"chain"}, directory : Directories]
    /\ listing \in {[DirIdleValue EXCEPT !.op = "participantes", !.cache = c,
                                         !.status = "start"] : c \in BOOLEAN}
    /\ FetchIdle /\ acc = AccIdle /\ NormIdle /\ walk = WalkIdleValue /\ BatchIdle

NextDir == DirFirst \/ DirNext

SpecDir == InitDir /\ [][NextDir]_vars

---------------------------------------------------------------------------
(* OpenBankingBR.busca_participante with one criterion: the loop over participantes *)

\* `dominio in ep` for a dominio made of whole pieces of the endpoint
Infix(d, ep) == \E i \in 0..(Len(ep) - Len(d)) : SubSeq(ep, i + 1, i + Len(d)) = d

\* an if/elif chain whose identificador branch compares the identifier
TestComparing(p, crit) ==
    CASE crit.kind = "cnpj" ->
            LET c == cnpj(p) IN
            IF c.k = "raise" THEN c
            ELSE IF c.v.v = crit.v.v THEN Ret(JStr(<<"match">>)) ELSE Ret(JStr(<<"no">>))
      [] crit.kind = "identificador" ->
            LET id == identificador(p) IN
            IF id.k = "raise" THEN id
            ELSE IF Same(id.v, crit.v) THEN Ret(JStr(<<"match">>)) ELSE Ret(JStr(<<"no">>))
      [] crit.kind = "dominio" ->
            IF \E j \in 1..Len(p.endpoints) : Infix(crit.v.v, p.endpoints[j])
            THEN Ret(JStr(<<"match">>)) ELSE Ret(JStr(<<"no">>))

\* the if/elif chain on one participant: "match" (return it), "no" (next one) or raise
Test(p, crit) ==
    CASE crit.kind = "cnpj" ->
            LET c == cnpj(p) IN
            IF c.k = "raise" THEN c
            ELSE IF c.v.v = crit.v.v THEN Ret(JStr(<<"match">>)) ELSE Ret(JStr(<<"no">>))
      [] crit.kind = "identificador" ->
            LET id == identificador(p) IN
            IF id.k = "raise" THEN id
            ELSE IF Truthy(id.v) THEN Ret(JStr(<<"match">>)) ELSE Ret(JStr(<<"no">>))
      [] crit.kind = "dominio" ->
            IF \E j \in 1..Len(p.endpoints) : Infix(crit.v.v, p.endpoints[j])
            THEN Ret(JStr(<<"match">>)) ELSE Ret(JStr(<<"no">>))

\* the loop body on the participant last yielded, then the next one
Tested(l, r) ==
    IF r.k = "raise" THEN [l EXCEPT !.status = "raised", !.e = r.e]
    ELSE IF r.v.v = <<"match">> THEN [l EXCEPT !.status = "returned", !.found = l.out[l.i]]
    ELSE Advance(l)

BuscaTest ==
    /\ listing.op = "busca_participante" /\ listing.status = "running"
    /\ \E r \in {Test(listing.out[listing.i], listing.crit)} : listing' = Tested(listing, r)
    /\ UNCHANGED <<fetchVars, acc, world, walk, norm, batch>>

\* the criteria drawn: of the first two members and of no member
Criteria ==
    [kind : {"cnpj"}, v : {JInt(1231), JInt(1232), JInt(1239)}]
    \cup [kind : {"identificador"}, v : {JStr(<<"org-", d>>) : d \in {"1", "2", "9"}}]
    \cup [kind : {"dominio"}, v : {JStr(<<"bank", d, ".example">>) : d \in {"1", "2", "9"}}]

BuscaKinds == {"good", "down", "noCnpj", "noServers"}

InitBusca ==
    /\ world \in [n : {1}, last : {"nolinks"}, first : {"chain"},
                  directory : {d \in Directories :
                                  \A i \in 1..Len(d.members) : d.members[i] \in BuscaKinds}]
    /\ listing \in {[DirIdleValue EXCEPT !.op = "busca_participante", !.cache = c,
                                         !.status = "start", !.crit = crit] :
                        c \in BOOLEAN, crit \in Criteria}
    /\ FetchIdle /\ acc = AccIdle /\ NormIdle /\ walk = WalkIdleValue /\ BatchIdle

NextBusca == DirFirst \/ BuscaTest

SpecBusca == InitBusca /\ [][NextBusca]_vars

---------------------------------------------------------------------------
(* BatchOpenBanking: the report routines and todos_dados.  A row keeps the participant
   columns, the element of the participant's walk it belongs to and the entity the
   remaining columns are read from. *)

\* the header line every report starts with
HeaderRow == [kind |-> "header"]

DataRow(seqParticipante, c, n, seq, produto, entity) ==
    [kind |-> "row", participante |-> seqParticipante, cnpj |-> c, nome |-> n,
     seq |-> seq, produto |-> produto, entity |-> entity]

\* the rest of `[x for x in ob.participantes]` once the directory is fetched
RECURSIVE ListAll(_)
ListAll(l) == IF l.status # "running" THEN l ELSE ListAll(Advance(l))

\* what the loop body iterates for one entity of the participant's walk: the entity
\* itself in agencias and produtos, its services or bundles in servicos and pacotes
Inner(report, entity) ==
    CASE report = "servicos" -> servicos(entity)
      [] report = "pacotes" -> pacotes(entity)
      [] OTHER -> Yields(<<entity>>, "-")

\* rows whose product column is the number of products seen before the row's own
RowsForCountedAfter(report, b, k, produto, inner, c, n) ==
    IF inner.yields = <<>> THEN Yields(<<>>, inner.e)
    ELSE IF c.k = "raise" THEN Yields(<<>>, c.e)
    ELSE IF n.k = "raise" THEN Yields(<<>>, n.e)
    ELSE Yields([j \in 1..Len(inner.yields) |->
                    DataRow(b.i, c.v, n.v,
                            IF report \in {"servicos", "pacotes"} THEN <<k - 1, j>> ELSE <<k>>,
                            produto, inner.yields[j])],
                inner.e)

\* the rows written for them and the error that ends them; c and n are the
\* participant's cnpj and nome, read for each row
RowsFor(report, b, k, produto, inner, c, n) ==
    IF inner.yields = <<>> THEN Yields(<<>>, inner.e)
    ELSE IF c.k = "raise" THEN Yields(<<>>, c.e)
    ELSE IF n.k = "raise" THEN Yields(<<>>, n.e)
    ELSE Yields([j \in 1..Len(inner.yields) |->
                    DataRow(b.i, c.v, n.v,
                            IF report \in {"servicos", "pacotes"} THEN <<k, j>> ELSE <<k>>,
                            produto, inner.yields[j])],
                inner.e)

RowsOf(report, b, entity, k) ==
    CHOOSE r \in {RowsFor(report, b, k, produto, inner, c, n) :
                    produto \in {entity},
                    inner \in {Inner(report, entity)},
                    c \in {cnpj(b.members[b.i])},
                    n \in {nome(b.members[b.i])}} : TRUE

\* the loop body run on the entities the walk has yielded and the loop has not seen
RECURSIVE Consume(_, _, _, _, _)
Consume(report, b, ents, k, rows) ==
    IF ents = <<>> THEN [rows |-> rows, seq |-> k, e |-> "-"]
    ELSE CHOOSE c \in {IF r.e # "-" THEN [rows |-> rows \o r.yields, seq |-> k + 1, e |-> r.e]
                       ELSE Consume(report, b, Tail(ents), k + 1, rows \o r.yields) :
                          r \in {RowsOf(report, b, Head(ents), k + 1)}} : TRUE

\* the report routine returns: todos_dados goes on with the next one
Returned(b) == [b EXCEPT !.pc = IF b.queue = <<>> THEN "done" ELSE "next"]

\* the message printed when a participant, or the directory (0), is given up
Message(b) == [report |-> b.report, participante |-> b.i]

\* a routine that gives up the report when a participant fails and errors are ignored
ParticipantFailedEndsReport(b) ==
    IF b.ignoraErros THEN Returned([b EXCEPT !.log = Append(@, Message(b))])
    ELSE [b EXCEPT !.pc = "raised", !.e = "BatchException"]

\* the except clause around one participant
ParticipantFailed(b) ==
    IF b.ignoraErros THEN [b EXCEPT !.pc = "members", !.log = Append(@, Message(b))]
    ELSE [b EXCEPT !.pc = "raised", !.e = "BatchException"]

\* a routine that writes the report of an empty directory when the listing fails
ListingFailedGoesOn(b) ==
    IF b.ignoraErros THEN [b EXCEPT !.pc = "members", !.log = Append(@, Message(b))]
    ELSE [b EXCEPT !.pc = "raised", !.e = "BatchException"]

\* the except clause around the directory listing
ListingFailed(b) ==
    IF b.ignoraErros THEN Returned([b EXCEPT !.log = Append(@, Message(b))])
    ELSE [b EXCEPT !.pc = "raised", !.e = "BatchException"]

\* the batch after one resumption of the participant's generator, c being what the
\* loop body did with the entities yielded
Stepped(b, w, c) ==
    LET b1 == [b EXCEPT !.rows[b.report] = @ \o c.rows, !.seq = c.seq] IN
    IF c.e # "-" \/ w.status = "raised" THEN ParticipantFailed(b1)
    ELSE IF w.status = "done" THEN [b1 EXCEPT !.pc = "members"]
    ELSE b1

AfterStep(b, w) ==
    CHOOSE r \in {Stepped(b, w, c) :
                    c \in {Consume(b.report, b, SubSeq(w.out, b.seq + 1, Len(w.out)),
                                   b.seq, <<>>)}} : TRUE

\* a report routine up to its participants loop: the file is opened anew, the header
\* written and the directory listed
BatchOpen ==
    /\ batch.pc = "next"
    /\ FetchCall(DirUrl, TRUE, ServerOutcome(world, DirUrl))
    /\ \E l \in {ListAll(Listed([DirIdleValue EXCEPT !.op = "participantes", !.cache = TRUE,
                                                    !.status = "start"], call'.out))} :
         /\ listing' = l
         /\ \E b \in {[batch EXCEPT !.report = Head(batch.queue), !.queue = Tail(batch.queue),
                                    !.rows[Head(batch.queue)] = <<HeaderRow>>,
                                    !.members = <<>>, !.i = 0, !.seq = 0]} :
              batch' = IF l.status = "raised" THEN ListingFailed(b)
                       ELSE [b EXCEPT !.members = l.out, !.pc = "members"]
    /\ UNCHANGED <<today, acc, world, walk, norm>>

\* for participante in participantes: the next participant's generator is made, or the
\* routine ends
BatchMember ==
    /\ batch.pc = "members"
    /\ IF batch.i = Len(batch.members)
       THEN batch' = Returned(batch) /\ UNCHANGED walk
       ELSE /\ batch' = [batch EXCEPT !.i = batch.i + 1, !.seq = 0, !.pc = "walking"]
            /\ walk' = [WalkIdleValue EXCEPT
                          !.mode = IF batch.report = "agencias" THEN "agencias" ELSE "produtos",
                          !.cache = TRUE,
                          !.declared = batch.members[batch.i + 1].endpoints,
                          !.eps = batch.members[batch.i + 1].endpoints,
                          !.status = "running"]
    /\ UNCHANGED <<fetchVars, acc, world, norm, listing>>

\* one resumption of the participant's generator and the loop body on what it yields
BatchWalkFirst ==
    /\ batch.pc = "walking"
    /\ WalkFirstCore
    /\ \E b \in {AfterStep(batch, walk')} : batch' = b
    /\ UNCHANGED <<today, acc, world, norm, listing>>

BatchWalkSecond ==
    /\ batch.pc = "walking"
    /\ WalkSecondCore
    /\ \E b \in {AfterStep(batch, walk')} : batch' = b
    /\ UNCHANGED <<today, acc, world, norm, listing>>

BatchWalkThird ==
    /\ batch.pc = "walking"
    /\ WalkThirdCore
    /\ \E b \in {AfterStep(batch, walk')} : batch' = b
    /\ UNCHANGED <<today, acc, world, norm, listing>>

\* the queues of report routines run: each routine alone, todos_dados, and a routine
\* run again
TodosDados == <<"agencias", "produtos", "servicos", "pacotes">>

Queues == {<<r>> : r \in ReportNames} \cup {TodosDados} \cup {<<r, r>> : r \in ReportNames}

\* the directories a batch is run on: down, not a list, or a list of members and of
\* elements with no servers
BatchKinds == {"good", "paged", "oddPage", "down", "noCnpj", "noServers", "rich"}

BatchDirectories ==
    {d \in Directories : \A i \in 1..Len(d.members) : d.members[i] \in BatchKinds}

BatchWorlds ==
    [n : {1}, last : {"nolinks"}, first : {"chain"}, directory : BatchDirectories]

InitBatch ==
    /\ world \in BatchWorlds
    /\ batch \in {[BatchIdleValue EXCEPT
                        !.op = IF q = TodosDados THEN "todos_dados" ELSE "reports",
                        !.ignoraErros = ig, !.queue = q, !.pc = "next"] :
                    ig \in BOOLEAN, q \in Queues}
    /\ today = 0
    /\ cacheDir = "dir"
    /\ files = [f \in CacheEntries |-> NoFile]
    /\ netLog = <<>>
    /\ call = NoCall
    /\ written = [u \in AllUrls |-> NoWrite]
    /\ acc = AccIdle /\ NormIdle /\ DirIdle /\ walk = WalkIdleValue

NextBatch == BatchOpen \/ BatchMember \/ BatchWalkFirst \/ BatchWalkSecond \/ BatchWalkThird

SpecBatch == InitBatch /\ [][NextBatch]_vars

---------------------------------------------------------------------------
(* The normalizer as a state machine: produtos over one page of a products endpoint *)

\* interest rates of one item
MaxRates == 3

Application ==
    JMap(Pair("interval", JStr(<<"1_FAIXA">>),
              "indexer", JMap(One("rate", JStr(<<"1", ".", "5">>)))))

InterestRates ==
    { JMap(EmptyMap),
      JMap(One("rate", JStr(<<"0", ".", "5">>))),
      JMap(One("referentialRateIndexer", JStr(<<"NA">>))),
      JMap(One("applications", JList(<<Application>>))) }

RateLists == UNION {[1..k -> InterestRates] : k \in 0..MaxRates}

ItemDocs ==
    {JMap(Pair("type", JStr(<<"EMPRESTIMO">>), "interestRates", JList(rs))) : rs \in RateLists}
    \cup {JMap(One("interest", JMap(One("rates", JList(rs))))) : rs \in {r \in RateLists : Len(r) <= 1}}
    \cup {JMap(One("interest", JMap(EmptyMap))), JMap(One("name", JStr(<<"abc">>))),
          JMap(One("interest", JStr(<<"abc">>))), JMap(One("interestRates", JStr(<<"abc">>))),
          JMap(One("interest", JMap(One("rates", JStr(<<"abc">>)))))}

ProductPage(key, item) ==
    JMap(Pair("endPoint", JStr(ProductsUrl(1)),
              "brand", JMap(One("companies", JList(<<JMap(One(key, JList(<<item>>)))>>)))))

ProductPages == {ProductPage(k, it) : k \in {"personalLoans", "businessCreditCards"}, it \in ItemDocs}

Normalize ==
    /\ norm.op = "none" /\ norm.cls = "none"
    /\ \E r \in {ProdutosOfPage(norm.page)} : norm' = [norm EXCEPT !.op = "produtos", !.out = r]
    /\ UNCHANGED <<fetchVars, acc, world, walk, listing, batch>>

InitNorm ==
    /\ norm \in {[NormIdleValue EXCEPT !.page = pg] : pg \in ProductPages}
    /\ FetchIdle /\ acc = AccIdle /\ WalkIdle /\ DirIdle /\ BatchIdle

NextNorm == Normalize

SpecNorm == InitNorm /\ [][NextNorm]_vars

---------------------------------------------------------------------------
(* The normalizer over a page of several companies *)

\* companies of one page
MaxCompanies == 3

PlainItem == JMap(One("name", JStr(<<"abc">>)))

CompanyDocs ==
    { JMap(EmptyMap),
      JMap(One("name", JStr(<<"abc">>))),
      JMap(One("personalLoans", JList(<<PlainItem>>))),
      JMap(Pair("personalLoans", JList(<<PlainItem>>), "businessAccounts", JList(<<PlainItem>>))),
      JMap(One("businessLoans", JStr(<<"abc">>))) }

CompanyLists == UNION {[1..k -> CompanyDocs] : k \in 1..MaxCompanies}

CompaniesPage(cs) ==
    JMap(Pair("endPoint", JStr(ProductsUrl(1)),
              "brand", JMap(One("companies", JList(cs)))))

InitCompanies ==
    /\ norm \in {[NormIdleValue EXCEPT !.page = CompaniesPage(cs)] : cs \in CompanyLists}
    /\ FetchIdle /\ acc = AccIdle /\ WalkIdle /\ DirIdle /\ BatchIdle

NextCompanies == Normalize

SpecCompanies == InitCompanies /\ [][NextCompanies]_vars

---------------------------------------------------------------------------
(* Properties of the fetcher (under Spec) *)

IsFetch == call.op = "fetchUrl"

\* C1: with a cache directory configured, once fetchUrl(url) has written its cache
\* entry today, every later fetchUrl(url) on the same day returns the document first
\* fetched, read back from the entry, and issues no network request.
C1_SameDayReadServedFromCache ==
    (IsFetch /\ call.cache /\ call.priorWritten.day = call.day)
        => /\ SameResult(call.out, Ret(call.priorWritten.doc))
           /\ call.from = "cache"
           /\ ~call.net

\* a third call of the day answered from the entry the first call wrote
C1_Witness ==
    /\ IsFetch /\ call.cache /\ call.n = 3
    /\ call.priorWritten.day = call.day /\ Same(call.priorWritten.doc, RateDoc)
    /\ call.from = "cache"
    /\ SameResult(call.out, Ret(RateDoc))
    /\ Len(netLog) = 1

\* C2: fetchUrl never serves a cache entry created on another day: on such a read
\* the entry is deleted and a network GET is issued for the url.
C2_StaleEntryDeletedAndRefetched ==
    (IsFetch /\ call.cache /\ call.prior # NoFile /\ call.prior.day # call.day)
        => /\ call.from = "net"
           /\ call.net
           /\ netLog # <<>> /\ netLog[Len(netLog)] = call.url
           /\ files[CacheEntry(call.url)] # call.prior
           /\ \/ files[CacheEntry(call.url)] = NoFile
              \/ files[CacheEntry(call.url)].day = call.day

\* a read of yesterday's entry that went to the network and failed: the entry is gone
C2_Witness ==
    /\ IsFetch /\ call.cache
    /\ call.prior = [day |-> 0, text |-> Dump(RateDoc)]
    /\ call.day = 1
    /\ call.resp = NetFail("Timeout")
    /\ files[CacheEntry(call.url)] = NoFile

\* C3: with no cache directory, a GET that succeeds with a non-null JSON body makes
\* fetchUrl return the parsed document.
C3_NoCacheReturnsDocument ==
    (/\ IsFetch /\ ~call.cache
     /\ call.resp.kind = "http" /\ call.resp.status = 200
     /\ Load(call.resp.body).k = "ret" /\ ~IsNull(Load(call.resp.body).v))
        => SameResult(call.out, Load(call.resp.body))

\* C9: a malformed URL (one requests rejects before sending, or one that is not
\* ASCII when the cache entry name is derived) makes fetchUrl return None and raise
\* nothing, with or without a cache directory.
C9_MalformedUrlIsAbsent ==
    (/\ IsFetch
     /\ ~(call.cache /\ cacheDir = "file")
     /\ (PrepareUrl(call.url) # "-" \/ (call.cache /\ ~IsAscii(call.url))))
        => SameResult(call.out, Ret(Null))

\* C10: a GET that ends in a non-2xx status, a timeout or a refused connection makes
\* fetchUrl return None and raise nothing, whatever the body.
C10_TransportFailureIsAbsent ==
    (/\ IsFetch /\ call.net
     /\ \/ call.resp.kind = "exc"
        \/ (call.resp.kind = "http" /\ call.resp.status \notin 200..299))
        => SameResult(call.out, Ret(Null))

---------------------------------------------------------------------------
(* Properties of the accessor (under SpecGet) *)

\* some key of the path cannot be resolved: it is missing from a map, or the value
\* reached so far is not a map
RECURSIVE Unresolved(_, _)
Unresolved(d, keys) ==
    /\ keys # <<>>
    /\ \/ d.t # "map"
       \/ Head(keys) \notin DOMAIN d.v
       \/ Unresolved(d.v[Head(keys)], Tail(keys))

\* the value a path leads to, Null when it leads nowhere
RECURSIVE ValueAt(_, _)
ValueAt(d, keys) ==
    IF keys = <<>> THEN d
    ELSE IF d.t # "map" \/ Head(keys) \notin DOMAIN d.v THEN Null
    ELSE ValueAt(d.v[Head(keys)], Tail(keys))

RECURSIVE StripLeadingZeros(_)
StripLeadingZeros(s) ==
    IF Len(s) > 1 /\ Head(s) = "0" THEN StripLeadingZeros(Tail(s)) ELSE s

\* C6: when some key of the path cannot be resolved, get(required=False) returns
\* None and get(required=True) raises RequiredFieldException, and nothing else.
C6_UnresolvedPath ==
    (acc.op = "get" /\ Unresolved(acc.d, Split(acc.key)))
        => SameResult(acc.out, IF acc.required THEN Raise("RequiredFieldException") ELSE Ret(Null))

\* C7: get(required=True, valueType=T), T a supported type, never returns None and
\* raises nothing but RequiredFieldException.
C7_RequiredNeverNone ==
    (acc.op = "get" /\ acc.required /\ acc.valueType # "complex")
        => /\ acc.out.k = "ret" => ~IsNull(acc.out.v)
           /\ acc.out.k = "raise" => acc.out.e = "RequiredFieldException"

\* C8: getInt never raises; it returns None when the path leads to no value or the
\* value's string form holds no digit, and otherwise the non-negative integer whose
\* decimal form is the digits of that string form, in order (leading zeros aside).
C8_GetIntDigitsOnly ==
    acc.op = "getInt" =>
        LET val == ValueAt(acc.d, Split(acc.key))
            digits == SelectSeq(PyStr(val), LAMBDA c : c \in DigitSet)
        IN  /\ acc.out.k = "ret"
            /\ IF IsNull(val) \/ digits = <<>> THEN IsNull(acc.out.v)
               ELSE /\ acc.out.v.t = "int"
                    /\ acc.out.v.v >= 0
                    /\ NatToSeq(acc.out.v.v) = StripLeadingZeros(digits)

\* the formatted number "12.345-6" read as 123456
C8_Witness ==
    /\ acc.op = "getInt"
    /\ Same(ValueAt(acc.d, Split(acc.key)), JStr(<<"1", "2", ".", "3", "4", "5", "-", "6">>))
    /\ SameResult(acc.out, Ret(JInt(123456)))

---------------------------------------------------------------------------
(* Properties of the page walker (under SpecPages) *)

\* the `data` map of page i as fetchUrlPages hands it out
PageElement(i) == SetItem(PageData(i), "endPoint", JStr(PageUrl(i))).v

\* the branch of page i as an Agencia carries it
PageBranch(i) == SetItem(BranchDoc(i), "endPoint", JStr(PageUrl(i))).v

WalkComplete == walk.status \in {"done", "raised"}

\* C4: for a chain of N >= 1 pages linked by absolute next URLs, with a cache
\* directory configured, iterating fetchUrlPages(url) to the end yields exactly the
\* data maps of pages 1..N in chain order, each with endPoint equal to its URL, and
\* Participante.agencias yields the branches of every page of the chain.
C4_WalkYieldsEveryPage ==
    (walk.cache /\ world.first = "chain" /\ WalkComplete) =>
        /\ walk.status = "done"
        /\ SameSeq(walk.pages, [i \in 1..world.n |-> PageElement(i)])
        /\ walk.mode = "agencias" => SameSeq(walk.out, [i \in 1..world.n |-> PageBranch(i)])

\* the fetch result of the walk's first page and the url it was asked for
FirstFetched == call.op = "fetchUrl" /\ call.url = UrlA /\ call.out.k = "ret"

HasData(x) == ~IsNull(x) /\ x.t = "map" /\ "data" \in DOMAIN x.v

\* C11: fetchUrlPages(url) yields nothing and raises nothing when the fetch result is
\* absent, not a map, or lacks `data`; otherwise, whatever the type of the `data`
\* value, its first element is the `data` object with endPoint set to the url.
C11_FirstElementOrNothing ==
    (walk.mode = "pages" /\ FirstFetched) =>
        IF ~HasData(call.out.v)
        THEN walk.status = "done" /\ walk.pages = <<>>
        ELSE /\ walk.status # "raised"
             /\ walk.pages # <<>>
             /\ walk.pages[1].t = "map"
             /\ "endPoint" \in DOMAIN walk.pages[1].v
             /\ Same(walk.pages[1].v["endPoint"], JStr(UrlA))
             /\ call.out.v.v["data"].t = "map" =>
                  \A k \in DOMAIN call.out.v.v["data"].v :
                      Same(walk.pages[1].v[k], call.out.v.v["data"].v[k])

---------------------------------------------------------------------------
(* Properties of the directory listing (under SpecDir) *)

\* an element Participante construction rejects for its AuthorisationServers
LacksServers(x) ==
    \/ x.t # "map"
    \/ "AuthorisationServers" \notin DOMAIN x.v
    \/ x.v["AuthorisationServers"].t # "list"

\* the directory as fetchUrl returned it to participantes
Fetched == call.out

\* C12: participantes fetches the directory url once per iteration; it raises before
\* yielding anything when the result is absent (OpenBankingException) or not a list
\* (InvalidDataException); an element that lacks AuthorisationServers, or has it as
\* a non-list, raises InvalidDataException when it is reached and is never skipped.
C12_ListingRaisesNeverSkips ==
    (listing.op = "participantes" /\ listing.status # "start") =>
        /\ call.n = 1 /\ call.url = DirUrl /\ Len(netLog) <= 1
        /\ (Fetched.k = "ret" /\ IsNull(Fetched.v)) =>
              listing.status = "raised" /\ listing.e = "OpenBankingException" /\ listing.out = <<>>
        /\ (Fetched.k = "ret" /\ ~IsNull(Fetched.v) /\ Fetched.v.t # "list") =>
              listing.status = "raised" /\ listing.e = "InvalidDataException" /\ listing.out = <<>>
        /\ (Fetched.k = "ret" /\ ~IsNull(Fetched.v) /\ Fetched.v.t = "list") =>
              LET data == Fetched.v.v IN
              \* what was yielded is the elements before the one now reached, in order
              /\ Len(listing.out) = listing.i /\ listing.i <= Len(data)
              /\ \A j \in 1..Len(listing.out) :
                    ~LacksServers(data[j]) /\ Same(listing.out[j].dados, data[j])
              /\ listing.status = "done" => listing.i = Len(data)
              \* the iteration ends at the element it raised on
              /\ listing.status = "raised" =>
                    /\ listing.i < Len(data)
                    /\ LacksServers(data[listing.i + 1]) => listing.e = "InvalidDataException"

\* a good element was yielded, then one without AuthorisationServers raised
C12_Witness ==
    /\ listing.op = "participantes" /\ listing.status = "raised"
    /\ listing.e = "InvalidDataException"
    /\ world.directory.members = <<"good", "noServers">>
    /\ Len(listing.out) = 1

---------------------------------------------------------------------------
(* Objects built directly from a document, and the properties the reports read *)

\* what a constructor gave: the object, or the error it raised
BuiltOf(b) == Yields(IF b.k = "ret" THEN <<b.p>> ELSE <<>>, b.e)

\* cls(openBaking, dados): DataObject.__init__ first
Build ==
    /\ norm.op = "none" /\ norm.cls # "none"
    /\ \E r \in {IF norm.page.t # "map" THEN Yields(<<>>, "InvalidDataException")
                 ELSE CASE norm.cls = "Produto" ->
                               BuiltOf(Produto(norm.key, norm.page, norm.rate))
                        [] norm.cls = "Servico" -> BuiltOf(Servico(norm.page))
                        [] norm.cls = "Pacote" -> BuiltOf(Pacote(norm.page))} :
         norm' = [norm EXCEPT !.op = "new", !.out = r]
    /\ UNCHANGED <<fetchVars, acc, world, walk, listing, batch>>

\* produto.categoria and produto.nome, as a row of produtos_csv reads them
ReadNames ==
    /\ norm.op = "new" /\ norm.cls = "Produto" /\ norm.read = "none"
    /\ norm' = [norm EXCEPT
                  !.read = "names",
                  !.values = [i \in 1..Len(norm.out.yields) |->
                                [categoria |-> Produto_categoria(norm.out.yields[i]),
                                 nome |-> Produto_nome(norm.out.yields[i])]]]
    /\ UNCHANGED <<fetchVars, acc, world, walk, listing, batch>>

\* the values of `type` and `name` drawn: absent ("-"), table entries, other text,
\* and values that are no text
TypeValues ==
    {JStr(<<"EMPRESTIMO_CHEQUE_ESPECIAL">>), JStr(<<"CONTA_POUPANCA">>), JStr(<<"XYZ">>),
     JStr(<<>>), JInt(3), Null, JList(<<>>), JMap(EmptyMap)}

NameValues == {JStr(<<"abc">>), JInt(7), Null}

NamedDocs ==
    {JMap(EmptyMap)}
    \cup {JMap(One("type", t)) : t \in TypeValues}
    \cup {JMap(One("name", n)) : n \in NameValues}
    \cup {JMap(Pair("type", t, "name", n)) : t \in TypeValues, n \in NameValues}

\* the family keys drawn: those of produtos and one that is none of them
FamilyKeys == {ProdutoKeys[i] : i \in DOMAIN ProdutoKeys} \cup {"otherProducts"}

InitNames ==
    /\ norm \in {[NormIdleValue EXCEPT !.cls = "Produto", !.key = k, !.page = d] :
                    k \in FamilyKeys, d \in NamedDocs}
    /\ FetchIdle /\ acc = AccIdle /\ WalkIdle /\ DirIdle /\ BatchIdle

NextNames == Build \/ ReadNames

SpecNames == InitNames /\ [][NextNames]_vars

\* entries of a prices or applications list: a label, a value (read by Servico and
\* Pacote), an indexer rate (read by Produto) and a customers rate; and an entry
\* without a label, and an entry that is a text
MaxPrices == 2

FaixaEntry(label, value) ==
    JMap([k \in {"interval", "value", "indexer", "customers"} |->
        CASE k = "interval" -> JStr(<<label>>)
          [] k = "value" -> JStr(value)
          [] k = "indexer" -> JMap(One("rate", JStr(value)))
          [] k = "customers" -> JMap(One("rate", JStr(<<"0", ".", value[1]>>)))])

FaixaEntries ==
    {FaixaEntry(l, v) : l \in {"1_FAIXA", "3_FAIXA", "4_FAIXA", "9_FAIXA"},
                        v \in {<<"1", ".", "5">>, <<"2", ".", "5">>}}
    \cup {JMap(EmptyMap), JStr(<<"abc">>)}

FaixaLists == UNION {[1..k -> FaixaEntries] : k \in 0..MaxPrices}

InitFaixas ==
    /\ norm \in {[NormIdleValue EXCEPT !.cls = c, !.page = JMap(One("prices", JList(l)))] :
                    c \in {"Servico", "Pacote"}, l \in FaixaLists}
               \cup {[NormIdleValue EXCEPT !.cls = "Produto", !.key = "personalLoans",
                                           !.page = JMap(EmptyMap),
                                           !.rate = JMap(One("applications", JList(l)))] :
                        l \in FaixaLists}
    /\ FetchIdle /\ acc = AccIdle /\ WalkIdle /\ DirIdle /\ BatchIdle

NextFaixas == Build

SpecFaixas == InitFaixas /\ [][NextFaixas]_vars

---------------------------------------------------------------------------
(* BatchOpenBanking.limpa_cache_antigo.  A file's day is the date the platform gives
   for its creation (getctime, st_birthtime, else st_mtime). *)

\* file.endswith('.json')
IsJsonName(name) == name # <<>> /\ name[Len(name)] = ".json"

\* a sweep that deletes from idadeMaxima days on
limpa_cache_antigoFromAge(dir, fs, day, idadeMaxima, failing) ==
    IF dir # "dir" THEN fs
    ELSE [name \in DOMAIN fs |->
            IF /\ fs[name] # NoFile
               /\ IsJsonName(name)
               /\ day - fs[name].day >= idadeMaxima
               /\ name \notin failing
            THEN NoFile ELSE fs[name]]

\* the files after limpa_cache_antigo(idadeMaxima); os.remove raises for the names in
\* failing, and the loop goes on
limpa_cache_antigo(dir, fs, day, idadeMaxima, failing) ==
    IF dir # "dir" THEN fs
    ELSE [name \in DOMAIN fs |->
            IF /\ fs[name] # NoFile
               /\ IsJsonName(name)
               /\ day - fs[name].day > idadeMaxima
               /\ name \notin failing
            THEN NoFile ELSE fs[name]]

\* the oldest file drawn, in days; the sweep is made on day MaxAge
MaxAge == 7

\* the names in the cache directory: two cache entries and a file that is none
SweepNames == {CacheEntry(DirUrl), CacheEntry(UrlA), <<"md5", ".json", ".bak">>}

\* the values of idadeMaxima drawn: the default and two others
DefaultIdadeMaxima == 5

IdadesMaximas == {0, 1, DefaultIdadeMaxima}

LimpaCacheAntigo(idadeMaxima, failing) ==
    /\ batch.op = "none"
    /\ files' = limpa_cache_antigo(cacheDir, files, today, idadeMaxima, failing)
    /\ batch' = [batch EXCEPT !.op = "limpa_cache_antigo", !.pc = "done",
                              !.sweep = [idadeMaxima |-> idadeMaxima, failing |-> failing,
                                         before |-> files]]
    /\ UNCHANGED <<today, cacheDir, netLog, call, written, acc, world, walk, norm, listing>>

InitSweep ==
    /\ today = MaxAge
    /\ cacheDir \in {"absent", "file", "dir"}
    /\ files \in [SweepNames -> {NoFile} \cup {[day |-> MaxAge - a, text |-> <<>>] : a \in 0..MaxAge}]
    /\ cacheDir # "dir" => \A name \in SweepNames : files[name] = NoFile
    /\ netLog = <<>>
    /\ call = NoCall
    /\ written = [u \in AllUrls |-> NoWrite]
    /\ acc = AccIdle /\ WalkIdle /\ NormIdle /\ DirIdle /\ BatchIdle

NextSweep ==
    \E idadeMaxima \in IdadesMaximas, failing \in SUBSET {n \in SweepNames : IsJsonName(n)} :
        LimpaCacheAntigo(idadeMaxima, failing)

SpecSweep == InitSweep /\ [][NextSweep]_vars

---------------------------------------------------------------------------
(* batch._fix: a value as a csv field.  The values drawn are texts of single
   characters. *)

Quote == "\""
Newline == "\n"

\* value.replace(old, new), new being a sequence of characters
RECURSIVE Replace(_, _, _)
Replace(v, old, new) ==
    IF v = <<>> THEN <<>>
    ELSE (IF Head(v) = old THEN new ELSE <<Head(v)>>) \o Replace(Tail(v), old, new)

\* a _fix that leaves the double quotes of the value as they are
_fixQuotesKept(value) ==
    IF IsNull(value) THEN <<>>
    ELSE IF value.t = "str"
    THEN IF value.v = <<"N", "A">> THEN <<>>
         ELSE <<Quote>> \o Replace(value.v, Newline, <<" ">>) \o <<Quote>>
    ELSE PyStr(value)

\* _fix(value)
_fix(value) ==
    IF IsNull(value) THEN <<>>
    ELSE IF value.t = "str"
    THEN IF value.v = <<"N", "A">> THEN <<>>
         ELSE <<Quote>>
                \o Replace(Replace(value.v, Newline, <<" ">>), Quote, <<Quote, Quote>>)
                \o <<Quote>>
    ELSE PyStr(value)

\* length of the texts drawn
MaxLen == 3

FixChars == {"N", "A", ",", " ", Quote, Newline}

FixValues ==
    {JStr(v) : v \in UNION {[1..n -> FixChars] : n \in 0..MaxLen}}
    \cup {Null, JInt(12), JFloat(15), JBool(TRUE)}

CallFix ==
    /\ acc.op = "none"
    /\ acc' = [acc EXCEPT !.op = "_fix", !.out = Ret(JStr(_fix(acc.d)))]
    /\ UNCHANGED <<fetchVars, world, walk, norm, listing, batch>>

InitFix ==
    /\ acc \in {[AccIdle EXCEPT !.d = v] : v \in FixValues}
    /\ FetchIdle /\ WalkIdle /\ NormIdle /\ DirIdle /\ BatchIdle

NextFix == CallFix

SpecFix == InitFix /\ [][NextFix]_vars

---------------------------------------------------------------------------
(* Properties of the batch (under SpecBatch) *)

\* a directory whose listing fails: it cannot be fetched or decoded, it is no list, or
\* one of its elements has no AuthorisationServers
DirectoryUnusable(d) ==
    \/ d.kind # "list"
    \/ \E i \in 1..Len(d.members) : d.members[i] = "noServers"

OnlyHeader(rows) == Len(rows) = 1 /\ rows[1].kind = "header"

\* the reports todos_dados has started, the current one included
Started == SubSeq(TodosDados, 1, Len(TodosDados) - Len(batch.queue))

\* C13: when the directory listing cannot be obtained or parsed, a report routine
\* without ignoraErros raises BatchException and todos_dados runs no later report;
\* with ignoraErros the routine returns leaving only the header row in its report, and
\* todos_dados goes on to the next report.
C13_ListingFailureEndsReport ==
    (batch.report # "-" /\ DirectoryUnusable(world.directory)) =>
        /\ OnlyHeader(batch.rows[batch.report])
        /\ \A r \in ReportNames : batch.rows[r] = <<>> \/ OnlyHeader(batch.rows[r])
        /\ ~batch.ignoraErros =>
              /\ batch.pc = "raised" /\ batch.e = "BatchException"
              /\ call.n = 1
              /\ \A r \in ReportNames \ {batch.report} : batch.rows[r] = <<>>
        /\ batch.ignoraErros =>
              /\ batch.pc = (IF batch.queue = <<>> THEN "done" ELSE "next")
              /\ batch.e = "-"
              /\ batch.op = "todos_dados" =>
                    /\ call.n = Len(Started)
                    /\ \A k \in 1..Len(TodosDados) :
                          IF k <= Len(Started) THEN OnlyHeader(batch.rows[TodosDados[k]])
                          ELSE batch.rows[TodosDados[k]] = <<>>

\* todos_dados ran its four reports on a directory whose second element has no
\* AuthorisationServers, ignoring errors
C13_Witness ==
    /\ batch.op = "todos_dados" /\ batch.ignoraErros /\ batch.pc = "done"
    /\ world.directory.members = <<"good", "noServers">>
    /\ \A r \in ReportNames : OnlyHeader(batch.rows[r])

\* the rows of the current report written for participant j
RowsOfParticipant(j) ==
    {k \in 1..Len(batch.rows[batch.report]) :
        batch.rows[batch.report][k].kind = "row"
        /\ batch.rows[batch.report][k].participante = j}

\* the requests made to the servers of member j
RequestsTo(j) ==
    {k \in 1..Len(netLog) : netLog[k] \in {BranchesUrl(j), MoreBranchesUrl(j), ProductsUrl(j)}}

\* the participants the current report gave up, by its messages
GivenUp == {j \in 1..Len(batch.members) : \E k \in 1..Len(batch.log) :
                batch.log[k].report = batch.report /\ batch.log[k].participante = j}

\* the current report has listed the directory and is in or past its participants loop
InLoop == batch.report # "-" /\ listing.status = "done"

\* C14: when processing participant i raises, with ignoraErros the participant is
\* skipped and every later participant is still processed and its rows written;
\* without ignoraErros a BatchException is raised and no later participant is
\* processed.
C14_ParticipantErrorSkipsOrStops ==
    InLoop =>
        /\ batch.ignoraErros =>
              /\ batch.pc # "raised"
              \* the routine returns only after the last participant
              /\ batch.pc \in {"next", "done"} => batch.i = Len(batch.members)
              \* what came before a participant given up is there, and so is what the
              \* participants after it have to report
              /\ \A i \in GivenUp : \A j \in 1..batch.i :
                    (j # i /\ (j < batch.i \/ batch.pc # "walking")
                         /\ world.directory.members[j] \in {"good", "paged"})
                        => RowsOfParticipant(j) # {}
        /\ ~batch.ignoraErros =>
              /\ batch.log = <<>>
              /\ batch.pc = "raised" =>
                    /\ batch.e = "BatchException"
                    /\ batch.i >= 1
                    /\ \A j \in (batch.i + 1)..Len(batch.members) :
                          RowsOfParticipant(j) = {} /\ RequestsTo(j) = {}
              \* and the loop never gets past a participant whose processing raises
              /\ \A j \in 1..(batch.i - 1) :
                    world.directory.members[j] \notin {"oddPage", "noCnpj"}

\* servicos_csv gave up the first participant, whose servers sent a page without
\* data, and wrote the services of the second
C14_Witness ==
    /\ batch.ignoraErros /\ batch.report = "servicos" /\ batch.pc = "done"
    /\ world.directory.members = <<"oddPage", "good">>
    /\ GivenUp = {1}
    /\ RowsOfParticipant(1) = {} /\ RowsOfParticipant(2) # {}

\* agencias_csv without ignoraErros stopped at the first of two participants
C14_WitnessStops ==
    /\ ~batch.ignoraErros /\ batch.report = "agencias" /\ batch.pc = "raised"
    /\ world.directory.members = <<"noCnpj", "good">>
    /\ batch.i = 1

\* C15: with a cache directory, over any sequence of report runs within one calendar
\* day, each endpoint url is requested over the network at most once.
C15_EachUrlRequestedOncePerDay ==
    (batch.report # "-" /\ cacheDir = "dir" /\ today = 0) =>
        \A i, j \in 1..Len(netLog) : netLog[i] = netLog[j] => i = j

---------------------------------------------------------------------------
(* Properties of the search (under SpecBusca) *)

\* the element x of the directory satisfies the criterion
Satisfies(x, crit) ==
    CASE crit.kind = "identificador" ->
            "OrganisationId" \in DOMAIN x.dados.v
            /\ Same(x.dados.v["OrganisationId"], crit.v)
      [] crit.kind = "cnpj" ->
            "RegistrationNumber" \in DOMAIN x.dados.v
            /\ x.dados.v["RegistrationNumber"].t = "str"
            /\ SameResult(ParseInt(StripNonDigits(x.dados.v["RegistrationNumber"].v)),
                          Ret(crit.v))
      [] crit.kind = "dominio" ->
            \E j \in 1..Len(x.endpoints) : Infix(crit.v.v, x.endpoints[j])

\* C16: busca_participante with a single criterion returns a participant that
\* satisfies it, or None when no participant of the directory does.
C16_SearchResultSatisfiesCriterion ==
    (listing.op = "busca_participante") =>
        /\ listing.status = "returned" => Satisfies(listing.found, listing.crit)
        /\ listing.status = "done" =>
              /\ IsNull(listing.found)
              /\ \A j \in 1..Len(listing.out) : ~Satisfies(listing.out[j], listing.crit)

---------------------------------------------------------------------------
(* Properties of built objects (under SpecNames) *)

\* the dados and the family key of the Produto built
Dados == norm.page.v

TypeIsEntry ==
    "type" \in DOMAIN Dados /\ Dados["type"].t = "str" /\ Len(Dados["type"].v) = 1
    /\ \E i \in DOMAIN NomeProdutosPairs : NomeProdutosPairs[i][1] = Dados["type"].v[1]

\* C17: nome is 'Adiantamento a Depositante' for the two unarranged-overdraft keys,
\* else the mapped name when the raw type is an entry of nomeProdutos, else the raw
\* name when it is a string, else None; categoria is the chaveCategorias entry of the
\* key, or 'Outros', and never raises.
C17_NameAndCategoryResolution ==
    (norm.read = "names" /\ norm.values # <<>>) =>
        /\ IF norm.key \in OverdraftKeys
           THEN SameResult(norm.values[1].nome, Ret(JStr(<<"Adiantamento a Depositante">>)))
           ELSE IF TypeIsEntry
           THEN \E i \in DOMAIN NomeProdutosPairs :
                    /\ NomeProdutosPairs[i][1] = Dados["type"].v[1]
                    /\ SameResult(norm.values[1].nome, Ret(JStr(<<NomeProdutosPairs[i][2]>>)))
           ELSE IF "name" \in DOMAIN Dados /\ Dados["name"].t = "str"
           THEN SameResult(norm.values[1].nome, Ret(Dados["name"]))
           ELSE SameResult(norm.values[1].nome, Ret(Null))
        /\ norm.values[1].categoria.k = "ret"
        /\ IF \E i \in DOMAIN ChaveCategoriasPairs : ChaveCategoriasPairs[i][1] = norm.key
           THEN \E i \in DOMAIN ChaveCategoriasPairs :
                    /\ ChaveCategoriasPairs[i][1] = norm.key
                    /\ Same(norm.values[1].categoria.v, JStr(<<ChaveCategoriasPairs[i][2]>>))
           ELSE Same(norm.values[1].categoria.v, JStr(<<"Outros">>))
        /\ (norm.key = "personalLoans" /\ "type" \in DOMAIN Dados
                /\ Same(Dados["type"], JStr(<<"EMPRESTIMO_CHEQUE_ESPECIAL">>))) =>
              /\ SameResult(norm.values[1].nome, Ret(JStr(<<"Cheque especial">>)))
              /\ Same(norm.values[1].categoria.v, JStr(<<"Empréstimo">>))

---------------------------------------------------------------------------
(* Properties of the price buckets (under SpecFaixas) *)

\* the prices or applications list the object was built from
FaixaList ==
    IF norm.cls = "Produto" THEN norm.rate.v["applications"].v ELSE norm.page.v["prices"].v

\* the entries of the list labelled k_FAIXA
Labelled(k) ==
    {i \in 1..Len(FaixaList) :
        /\ FaixaList[i].t = "map"
        /\ "interval" \in DOMAIN FaixaList[i].v
        /\ Same(FaixaList[i].v["interval"], JStr(<<Faixas[k]>>))}

\* the key the class reads the rate or value from
ValueKey == IF norm.cls = "Produto" THEN <<"indexer", ".", "rate">> ELSE <<"value">>

\* C18: in Servico, Pacote and Produto construction an entry labelled k_FAIXA sets
\* only bucket k (its rate or value and its customer share), and every bucket whose
\* label does not occur in the list stays absent.
C18_BucketsSetByOwnLabelOnly ==
    (norm.op = "new" /\ norm.cls \in {"Servico", "Pacote", "Produto"} /\ norm.out.e = "-") =>
        /\ Len(norm.out.yields) = 1
        /\ \A k \in 1..4 :
              IF Labelled(k) = {}
              THEN /\ IsNull(norm.out.yields[1].taxa[k])
                   /\ IsNull(norm.out.yields[1].clientes[k])
              ELSE LET last == CHOOSE i \in Labelled(k) : \A j \in Labelled(k) : j <= i IN
                   /\ Same(norm.out.yields[1].taxa[k],
                           get(FaixaList[last], ValueKey, FALSE, "float").v)
                   /\ Same(norm.out.yields[1].clientes[k],
                           get(FaixaList[last], <<"customers", ".", "rate">>, FALSE, "float").v)

\* a Servico built from a 9_FAIXA and a 3_FAIXA price: bucket 3 alone is set
C18_Witness ==
    /\ norm.op = "new" /\ norm.cls = "Servico" /\ norm.out.e = "-"
    /\ Len(FaixaList) = 2 /\ Labelled(3) = {2}
    /\ ~IsNull(norm.out.yields[1].taxa[3]) /\ ~IsNull(norm.out.yields[1].clientes[3])
    /\ \A k \in {1, 2, 4} : IsNull(norm.out.yields[1].taxa[k])

\* C23: building a Servico, a Pacote or a Produto never raises because of an entry of
\* its prices or applications list: an entry whose interval label is unrecognized or
\* missing is ignored, so that a bucket no entry is labelled for stays absent.
C23_ListEntriesNeverRaise ==
    (norm.op = "new" /\ norm.cls \in {"Servico", "Pacote", "Produto"}) =>
        /\ norm.out.e = "-"
        /\ Len(norm.out.yields) = 1
        /\ \A k \in 1..4 :
              Labelled(k) = {} =>
                 /\ IsNull(norm.out.yields[1].taxa[k])
                 /\ IsNull(norm.out.yields[1].clientes[k])

---------------------------------------------------------------------------
(* Properties of the cache sweep (under SpecSweep) *)

Swept == batch.op = "limpa_cache_antigo"

\* the age in days the file of that name had when the sweep was made
AgeBefore(name) == today - batch.sweep.before[name].day

---------------------------------------------------------------------------
(* Properties of the csv fields (under SpecFix) *)

\* an RFC 4180 reader on the text of one field: the characters after the opening
\* quote, a doubled quote standing for one, up to the closing quote at the end
RECURSIVE ReadEscaped(_, _, _)
ReadEscaped(text, i, sofar) ==
    IF i > Len(text) THEN Raise("Error")
    ELSE IF text[i] # Quote THEN ReadEscaped(text, i + 1, Append(sofar, text[i]))
    ELSE IF i < Len(text) /\ text[i + 1] = Quote
    THEN ReadEscaped(text, i + 2, Append(sofar, Quote))
    ELSE IF i = Len(text) THEN Ret(JStr(sofar))
    ELSE Raise("Error")

\* a field is escaped, or has no quote, comma or line break in it
ReadField(text) ==
    IF text # <<>> /\ text[1] = Quote THEN ReadEscaped(text, 2, <<>>)
    ELSE IF \E i \in 1..Len(text) : text[i] \in {Quote, ",", Newline} THEN Raise("Error")
    ELSE Ret(JStr(text))

\* s with each newline replaced by one space
Spaced(s) == [i \in 1..Len(s) |-> IF s[i] = Newline THEN " " ELSE s[i]]

\* s with each double quote doubled
RECURSIVE Doubled(_)
Doubled(s) ==
    IF s = <<>> THEN <<>>
    ELSE (IF Head(s) = Quote THEN <<Quote, Quote>> ELSE <<Head(s)>>) \o Doubled(Tail(s))

\* C20: for every string s other than 'NA', _fix(s) is s with each newline replaced
\* by one space and each double quote doubled, wrapped in double quotes, and an
\* RFC 4180 reader of the field recovers s with each newline replaced by a space;
\* None is emitted as the empty field.
C20_FixRoundTrip ==
    (acc.op = "_fix") =>
        /\ IsNull(acc.d) => acc.out.v.v = <<>>
        /\ (acc.d.t = "str" /\ acc.d.v # <<"N", "A">>) =>
              /\ acc.out.v.v = <<Quote>> \o Doubled(Spaced(acc.d.v)) \o <<Quote>>
              /\ SameResult(ReadField(acc.out.v.v), Ret(JStr(Spaced(acc.d.v))))

\* a text with a double quote and a newline went through _fix
C20_Witness ==
    /\ acc.op = "_fix" /\ acc.d.t = "str"
    /\ acc.d.v = <<Quote, Newline, "A">>
    /\ acc.out.v.v = <<Quote, Quote, Quote, " ", "A", Quote>>

---------------------------------------------------------------------------
(* Properties of the normalizer (under SpecNorm) *)

\* the one item of the page being normalized
NormItem ==
    LET company == norm.page.v["brand"].v["companies"].v[1]
        key == CHOOSE k \in DOMAIN company.v : TRUE
    IN  company.v[key].v[1]

\* C5: for a product item whose interestRates is a list of length K, produtos yields
\* exactly K Produtos for the item, in list order, with jurosSeq 1, 2, ..., K.
C5_RatesNumberedInListOrder ==
    (norm.op = "produtos" /\ IsListAt(NormItem, "interestRates")) =>
        LET rates == NormItem.v["interestRates"].v IN
        /\ norm.out.e = "-"
        /\ Len(norm.out.yields) = Len(rates)
        /\ \A i \in 1..Len(rates) :
             /\ Same(norm.out.yields[i].jurosRate, get(rates[i], <<"rate">>, FALSE, "float").v)
             /\ Same(jurosSeq(norm.out.yields[i]), JInt(i))

\* the item has a list at item['interest']['rates']
HasInterestRates(item) ==
    "interest" \in DOMAIN item.v /\ IsListAt(item.v["interest"], "rates")

\* a Produto without interest-rate detail
NoRateDetail(p) ==
    /\ IsNull(p.jurosRate) /\ IsNull(p.jutosTipo)
    /\ IsNull(p.minimumRate) /\ IsNull(p.maximumRate)
    /\ \A f \in 1..4 : IsNull(p.taxa[f]) /\ IsNull(p.clientes[f])

\* C22: a product item with neither an interestRates list nor an interest.rates list
\* (an `interest` map holding no `rates` list included) yields exactly one Produto,
\* which carries no interest-rate detail.
C22_ItemWithoutRatesYieldsOne ==
    (norm.op = "produtos" /\ ~IsListAt(NormItem, "interestRates")
                          /\ ~HasInterestRates(NormItem)) =>
        /\ norm.out.e = "-"
        /\ Len(norm.out.yields) = 1
        /\ NoRateDetail(norm.out.yields[1])

\* the map m without its key k
Without(m, k) == JMap([j \in DOMAIN m.v \ {k} |-> m.v[j]])

\* C27: normalizing changes the fetched document only by adding the key endPoint: the
\* item a Produto carries is, but for its endPoint, the item that was fetched, with
\* no other key added, changed or removed in any of its maps.
C27_OnlyEndPointAdded ==
    norm.op = "produtos" =>
        \A n \in 1..Len(norm.out.yields) :
            /\ "endPoint" \in DOMAIN norm.out.yields[n].dados.v
            /\ Same(Without(norm.out.yields[n].dados, "endPoint"), NormItem)

---------------------------------------------------------------------------
(* Properties of the normalizer over several companies (under SpecCompanies) *)

\* the companies of the page being normalized
Companies == norm.page.v["brand"].v["companies"].v

\* the first of the twelve keys the company itself has, else NoKey
OwnKey(company) ==
    IF \E i \in 1..Len(ProdutoKeys) : ProdutoKeys[i] \in DOMAIN company.v
    THEN ProdutoKeys[CHOOSE i \in 1..Len(ProdutoKeys) :
                        /\ ProdutoKeys[i] \in DOMAIN company.v
                        /\ \A j \in 1..(i - 1) : ProdutoKeys[j] \notin DOMAIN company.v]
    ELSE NoKey

\* the company has a family key, and a list under it
Decodes(company) == OwnKey(company) # NoKey /\ company.v[OwnKey(company)].t = "list"

\* the family keys of the Produtos due: one per item, company by company
RECURSIVE KeysDue(_)
KeysDue(cs) ==
    IF cs = <<>> THEN <<>>
    ELSE (IF Decodes(Head(cs))
          THEN [i \in 1..Len(Head(cs).v[OwnKey(Head(cs))].v) |-> OwnKey(Head(cs))]
          ELSE <<>>) \o KeysDue(Tail(cs))

\* C21: each company's Produtos carry the first of the twelve keys present on that
\* company itself, and a company with none of the keys yields nothing and raises
\* nothing, whatever companies precede it on the page.
C21_FamilyKeyIsTheCompanysOwn ==
    norm.op = "produtos" =>
        /\ norm.out.e = "-"
        /\ [i \in 1..Len(norm.out.yields) |-> norm.out.yields[i].key] = KeysDue(Companies)

---------------------------------------------------------------------------
(* Properties of a walk over several endpoints (under SpecEndpoints) *)

\* the host of a declared endpoint, and what its servers do
HostOf(url) == CHOOSE i \in 1..MaxMembers : url \in {BranchesUrl(i), ProductsUrl(i)}
KindOf(url) == world.directory.members[HostOf(url)]

\* the endpoint is one the walk's property reads
Matches(url) ==
    \/ walk.mode = "agencias" /\ IsBranchesEndpoint(url)
    \/ walk.mode = "produtos" /\ IsProductsEndpoint(url)

\* the entity on the endpoint's page, as the walk yields it from the address at
EntityOf(url, at) ==
    IF walk.mode = "agencias"
    THEN SetItem(BranchDoc(HostOf(url)), "endPoint", JStr(at)).v
    ELSE Produto("personalAccounts",
                 SetItem(ProductItem(HostOf(url)), "endPoint", JStr(at)).v, Null).p

SameEntity(x, y) ==
    IF walk.mode = "agencias" THEN Same(x, y) ELSE x.key = y.key /\ Same(x.dados, y.dados)

\* the walk came to its end: the generator returned or raised
Finished == walk.status \in {"done", "raised"}

\* the endpoint's answer cannot be decoded: no JSON, a page without data, a company
\* without branches, a company that is no map
Undecodable(url) == KindOf(url) \in {"html", "oddPage", "noBranches", "badCompany"}

\* C24: in agencias and produtos an endpoint or page that cannot be decoded is
\* skipped: the generator does not raise, and the entities of the next endpoint are
\* still yielded.
C24_UndecodableEndpointIsSkipped ==
    Finished =>
        /\ walk.status = "done"
        /\ \A j \in 1..Len(walk.declared) :
              ( /\ Matches(walk.declared[j])
                /\ KindOf(walk.declared[j]) = "good"
                /\ \E h \in 1..(j - 1) : Matches(walk.declared[h])
                /\ \A h \in 1..(j - 1) :
                      Matches(walk.declared[h]) => Undecodable(walk.declared[h]) )
              => \E n \in 1..Len(walk.out) :
                    SameEntity(walk.out[n], EntityOf(walk.declared[j], walk.declared[j]))

\* the entities of the matching endpoints among eps, in order; an endpoint whose
\* servers are not good has none
RECURSIVE EntitiesDue(_)
EntitiesDue(eps) ==
    IF eps = <<>> THEN <<>>
    ELSE (IF Matches(Head(eps)) /\ KindOf(Head(eps)) = "good"
          THEN <<EntityOf(Head(eps), Head(eps))>> ELSE <<>>) \o EntitiesDue(Tail(eps))

\* every host answers with one page
SinglePages == \A i \in 1..MaxMembers : world.directory.members[i] \notin {"paged", "cyclic"}

\* C25: agencias walks every declared endpoint that ends in the branches path and
\* produtos every declared endpoint that contains the products path, in declaration
\* order, yielding the entities of each.
C25_EveryMatchingEndpointWalked ==
    (walk.status = "done" /\ SinglePages) =>
        /\ Len(walk.out) = Len(EntitiesDue(walk.declared))
        /\ \A n \in 1..Len(walk.out) :
              SameEntity(walk.out[n], EntitiesDue(walk.declared)[n])

\* a page of the endpoint was handed to the consumer
Entered(url) ==
    \E n \in 1..Len(walk.pages) :
        /\ walk.pages[n].t = "map"
        /\ "endPoint" \in DOMAIN walk.pages[n].v
        /\ Same(walk.pages[n].v["endPoint"], JStr(url))

\* C26: a walk of agencias or produtos that has entered an endpoint whose first page
\* names itself as the next page never comes to an end: unless the consumer stops,
\* it stays on that endpoint, fetching.
C26_CyclicChainNeverEnds ==
    \A j \in 1..Len(walk.declared) :
        ( /\ Matches(walk.declared[j])
          /\ KindOf(walk.declared[j]) = "cyclic"
          /\ Entered(walk.declared[j])
          /\ walk.status # "stopped" )
        => (walk.status = "running" /\ walk.gen.url = walk.declared[j])

\* the request made in this step
Requested == netLog'[Len(netLog')]

\* C28: page fetching is demand-driven and ordered.  A request is made only in a step
\* in which a running consumer asks for an element, one request per element asked;
\* it is for the first page of the endpoint whose sequence the consumer begins, or,
\* the page before having been handed over, for the page its next link names.  A
\* consumer that has stopped causes no request.
C28_FetchingIsDemandDriven ==
    [][ netLog' # netLog =>
          /\ walk.status = "running"
          /\ walk'.asked = walk.asked + 1
          /\ Len(netLog') = Len(netLog) + 1
          /\ \/ /\ walk.gen.pc = "none"
                /\ NextEndpoint(walk.mode, walk.eps) # <<>>
                /\ Requested = Head(NextEndpoint(walk.mode, walk.eps))
             \/ /\ walk.gen.pc = "afterData"
                /\ Entered(walk.gen.url)
                /\ PagesSecond(walk.gen.root).k = "yield"
                /\ Requested = PagesSecond(walk.gen.root).v.v ]_vars

\* agencias over a first host with two pages of branches, stopped after the second
\* element was asked for: the two pages were requested, in order, and nothing else
C28_Witness ==
    /\ walk.mode = "agencias" /\ walk.status = "stopped" /\ walk.asked = 2
    /\ walk.declared = DeclaredForward
    /\ KindOf(BranchesUrl(1)) = "paged"
    /\ netLog = <<BranchesUrl(1), MoreBranchesUrl(1)>>

\* the participant made from the p-th element of the directory list
DirectoryMember(p) == Participante(Element(world.directory.members[p], p)).p

\* the row has the participant columns of the member m of the directory
RowOfMember(row, m) ==
    /\ SameResult(Ret(row.cnpj), cnpj(m))
    /\ SameResult(Ret(row.nome), nome(m))

\* the row is read from the product of the sequence ps its number names
RowOfProduct(report, row, ps) ==
    /\ row.seq[1] \in 1..Len(ps)
    /\ row.produto = ps[row.seq[1]]
    /\ report \in {"servicos", "pacotes"} =>
          \A inner \in {Inner(report, ps[row.seq[1]]).yields} :
             /\ row.seq[2] \in 1..Len(inner)
             /\ row.entity = inner[row.seq[2]]

\* the rows of a report that are no header
DataRows(report) ==
    {batch.rows[report][j] : j \in {i \in 1..Len(batch.rows[report]) :
                                        batch.rows[report][i].kind = "row"}}

ProductReports == {"produtos", "servicos", "pacotes"}

\* C29: PARTICIPANTE_SEQ of every row of every report is the position, in the directory
\* list, of the participant the row's columns are read from; PRODUTO_SEQ of a row of
\* the produtos, servicos and pacotes reports is the position of the row's product in
\* the sequence the participant's produtos has yielded; and in the three reports the
\* rows of one participant have the same PRODUTO_SEQ exactly when they are rows of
\* the same product.
C29_SequenceNumbersArePositions ==
    /\ \A report \in ReportNames : \A row \in DataRows(report) :
           /\ row.participante \in 1..Len(world.directory.members)
           /\ \A m \in {DirectoryMember(row.participante)} : RowOfMember(row, m)
    /\ batch.report \in ProductReports =>
           \A row \in DataRows(batch.report) :
              row.participante = batch.i => RowOfProduct(batch.report, row, walk.out)
    /\ \A r1 \in ProductReports, r2 \in ProductReports :
           \A a \in DataRows(r1), b \in DataRows(r2) :
              a.participante = b.participante =>
                  (a.seq[1] = b.seq[1] <=> a.produto = b.produto)

\* todos_dados has ended on a directory whose first member's servers are down and whose
\* second lists four products, the first with no fee and no bundle: the fourth product
\* is numbered 4 under participant 2 in the three reports
C29_Witness ==
    /\ batch.op = "todos_dados" /\ batch.pc = "done" /\ batch.ignoraErros
    /\ world.directory.kind = "list"
    /\ world.directory.members = <<"down", "rich">>
    /\ Len(walk.out) = 4
    /\ \E j \in 1..Len(batch.rows["produtos"]) :
          /\ batch.rows["produtos"][j].kind = "row"
          /\ batch.rows["produtos"][j].participante = 2
          /\ batch.rows["produtos"][j].seq = <<4>>
    /\ \E j \in 1..Len(batch.rows["servicos"]) :
          /\ batch.rows["servicos"][j].kind = "row"
          /\ batch.rows["servicos"][j].participante = 2
          /\ batch.rows["servicos"][j].seq = <<4, 1>>
    /\ \E j \in 1..Len(batch.rows["pacotes"]) :
          /\ batch.rows["pacotes"][j].kind = "row"
          /\ batch.rows["pacotes"][j].participante = 2
          /\ batch.rows["pacotes"][j].seq = <<4, 1>>

\* the last call was given a cache directory and came to return what the entry holds,
\* or to the request
Completed == IsFetch /\ call.cache /\ call.from \in {"cache", "net"}

\* C30: once a call fetchUrl(url, cacheDir) has returned a document, returned None or
\* raised from the request or the parsing of the response, the cache entry of url is
\* absent or was created on the day of the call, whatever calls and midnights came
\* before: an entry of another day is removed before the request and stays removed
\* when the request fails.
C30_EntryAbsentOrOfToday ==
    Completed =>
        \/ files[CacheEntry(call.url)] = NoFile
        \/ files[CacheEntry(call.url)].day = call.day

\* yesterday's entry read today, the response being no JSON: the call raised and the
\* entry is gone
C30_Witness ==
    /\ Completed /\ call.from = "net"
    /\ call.prior # NoFile /\ call.prior.day = 0 /\ call.day = 1 /\ today = 1
    /\ call.resp = NetResponse(200, HtmlBody)
    /\ call.out.k = "raise" /\ call.out.e = "OpenBankingException"
    /\ files[CacheEntry(call.url)] = NoFile

=============================================================================
